---- MODULE Spec2Model ----
(***************************************************************************)
(* A model of the rsnvim msgpack-RPC client: the frame codec (rpc.rs), the *)
(* call multiplexer and its reader thread (client.rs), the default inbound *)
(* handlers (handler.rs) and the shared-session entry points               *)
(* (session.rs, api/mod.rs).                                               *)
(***************************************************************************)
EXTENDS Integers, Sequences, FiniteSets, TLC

\* ------------------------------------------------------------------ bounds
\* caller threads sharing one session
NumCallers == 2
\* calls issued in one run (caps msg_counter)
MaxCalls == 2
\* frames the peer sends in one run
MaxFrames == 3
\* the call deadline (client.rs:65, one second) counted in polling delays
dur == 2
\* the polling delay (client.rs:66), the unit of time of the model
delay == 1
\* the largest msgid of the frames given to the codec
MaxId == 1
\* the longest array given to decode
MaxArr == 4
\* the functions of a manifest given to the generator
MaxFuncs == 2
\* the arguments of a call of value_vec
MaxArgs == 2

Callers == 1..NumCallers
ReaderThread == NumCallers + 1
NoThread == ReaderThread + 1
Threads == Callers \cup {ReaderThread}
MsgIds == 0..(MaxCalls - 1)

\* ------------------------------------------------------------ rmpv::Value
Nil == [k |-> "Nil"]
String(s) == [k |-> "String", v |-> s]
Integer(n) == [k |-> "Integer", v |-> n]
Array(xs) == [k |-> "Array", v |-> xs]
Boolean(b) == [k |-> "Boolean", v |-> b]
F64(x) == [k |-> "F64", v |-> x]
\* Value::Map: a sequence of <<key, value>> pairs
Map(pairs) == [k |-> "Map", v |-> pairs]
\* Value::Ext: the extension type and its payload
Ext(ty, data) == [k |-> "Ext", v |-> <<ty, data>>]

\* rmpv's Index<usize> for Value: the element, or Nil when the value is not
\* an array or the index is out of range (rpc.rs:104-129 index with it).
At(val, i) ==
    IF val.k = "Array" /\ i + 1 <= Len(val.v) THEN val.v[i + 1] ELSE Nil

\* Value::as_u64: Some(n) for a non-negative integer, None otherwise.
IsU64(val) == val.k = "Integer" /\ val.v >= 0

\* --------------------------------------------------------------- error.rs
ConnectionError(s) == [kind |-> "ConnectionError", msg |-> s]
DecodingError(s) == [kind |-> "DecodingError", msg |-> s]
TimeoutError(s) == [kind |-> "TimeoutError", msg |-> s]
MpscError(s) == [kind |-> "MpscError", msg |-> s]
NotImplemented(s) == [kind |-> "NotImplemented", msg |-> s]

\* impl Display for Error: every variant prints its string and nothing else.
Display(err) == err.msg

\* impl From<Error> for Value
ValueFromError(err) == String(Display(err))

Ok(val) == [ok |-> TRUE, val |-> val]
Err(err) == [ok |-> FALSE, err |-> err]

\* ----------------------------------------------------------------- rpc.rs
RpcRequest(id, method, params) ==
    [type |-> "RpcRequest", msgid |-> id, method |-> method, params |-> params]
RpcResponse(id, error, result) ==
    [type |-> "RpcResponse", msgid |-> id, error |-> error, result |-> result]
RpcNotification(method, params) ==
    [type |-> "RpcNotification", method |-> method, params |-> params]

Panic == [tag |-> "Panic"]
Decoded(m) == [tag |-> "Ok", msg |-> m]
DecodeErr(e) == [tag |-> "Err", err |-> e]

\* rpc::decode applied to the value read_value returned.  try_int! unwraps
\* as_u64, which panics on a negative integer.
decode(arr) ==
    IF arr.k # "Array"
    THEN DecodeErr(DecodingError("RPC message must be an array"))
    ELSE IF IsU64(At(arr, 0)) /\ At(arr, 0).v = 0
    THEN IF At(arr, 1).k # "Integer"
         THEN DecodeErr(DecodingError("RPC element not a string"))
         ELSE IF ~IsU64(At(arr, 1)) THEN Panic
         ELSE IF At(arr, 2).k # "String"
         THEN DecodeErr(DecodingError("RPC element not a string"))
         ELSE IF At(arr, 3).k # "Array"
         THEN DecodeErr(DecodingError("RPC element is not an array"))
         ELSE Decoded(RpcRequest(At(arr, 1).v, At(arr, 2).v, At(arr, 3).v))
    ELSE IF IsU64(At(arr, 0)) /\ At(arr, 0).v = 1
    THEN IF At(arr, 1).k # "Integer"
         THEN DecodeErr(DecodingError("RPC element not a string"))
         ELSE IF ~IsU64(At(arr, 1)) THEN Panic
         ELSE Decoded(RpcResponse(At(arr, 1).v, At(arr, 2), At(arr, 3)))
    ELSE IF IsU64(At(arr, 0)) /\ At(arr, 0).v = 2
    THEN IF At(arr, 1).k # "String"
         THEN DecodeErr(DecodingError("RPC element not a string"))
         ELSE IF At(arr, 2).k # "Array"
         THEN DecodeErr(DecodingError("RPC element is not an array"))
         ELSE Decoded(RpcNotification(At(arr, 1).v, At(arr, 2).v))
    ELSE DecodeErr(DecodingError("RPC message does not contain type"))

\* An encode that writes the fields of a Response in the other order.
encode_swapped(m) ==
    IF m.type = "RpcRequest"
    THEN Array(<<Integer(0), Integer(m.msgid), String(m.method), Array(m.params)>>)
    ELSE IF m.type = "RpcResponse"
    THEN Array(<<Integer(1), Integer(m.msgid), m.result, m.error>>)
    ELSE Array(<<Integer(2), String(m.method), Array(m.params)>>)

\* rpc::encode: the value handed to write_value.
encode(m) ==
    IF m.type = "RpcRequest"
    THEN Array(<<Integer(0), Integer(m.msgid), String(m.method), Array(m.params)>>)
    ELSE IF m.type = "RpcResponse"
    THEN Array(<<Integer(1), Integer(m.msgid), m.error, m.result>>)
    ELSE Array(<<Integer(2), String(m.method), Array(m.params)>>)

\* ------------------------------------------------------------- handler.rs
\* The provided method of RequestHandler, which DefaultHandler inherits.
handle_request(id, method, params) == Err(NotImplemented(method))

\* Implementations of RequestHandler a user can pass to start_event_loop: one
\* that returns its arguments as the result, one that has nothing to return
\* and returns Ok(Value::Nil), one that returns an error made from the method.
RequestHandlers == {"echo", "fail"}
ReplyHandlers == {"echo", "unit", "fail"}

user_handle_request(h, id, method, params) ==
    IF h = "echo"
    THEN Ok(Array(<<Integer(id), String(method), Array(params)>>))
    ELSE IF h = "unit"
    THEN Ok(Nil)
    ELSE Err(DecodingError(method))

\* The call handler.handle_request(..) of the reader thread, dispatched on the
\* handler the event loop was started with; DefaultHandler has the provided
\* method.
dyn_handle_request(h, id, method, params) ==
    IF h = "DefaultHandler"
    THEN handle_request(id, method, params)
    ELSE user_handle_request(h, id, method, params)

\* The provided method of NotificationHandler: it does nothing and returns.
handle_notification(method, params) == "returned"

\* ------------------------------------------------------- the peer's frames
Payload(id) == Array(<<Integer(id)>>)

PeerFrames ==
    {encode(RpcResponse(i, Nil, Payload(i))) : i \in MsgIds}
        \cup {encode(RpcResponse(i, String("bad"), Nil)) : i \in MsgIds}
        \cup {encode(RpcRequest(7, "foo", <<>>)),
              encode(RpcNotification("ev", <<>>)),
              Integer(5)}

\* The frames of the peer of a client that is started more than once.
RestartFrames ==
    {encode(RpcRequest(7, "foo", <<>>)),
     encode(RpcNotification("ev", <<>>)),
     encode(RpcResponse(0, Nil, Payload(0)))}

\* ------------------------------------------------------------------ state
VARIABLES
    api,             \* the entry point callers use: "Nvim" or "Session"
    inbound,         \* the values the peer has written that the reader has not read
    sent,            \* how many values the peer has written
    closed,          \* the peer has closed the reader half
    writable,        \* writes to the writer half succeed
    wire,            \* every value the client has written and flushed
    msg_counter,     \* Client.msg_counter
    handles,         \* keys of Client.handles (the sender kept for that id)
    chan,            \* the mpsc channel of each call: the messages sent, unread
    writerLock,      \* the thread holding the guard of Client.writer
    sessionLock,     \* the thread holding the guard of Nvim.session
    handlesPoisoned, \* a thread panicked holding the guard of Client.handles
    writerPoisoned,  \* a thread panicked holding the guard of Client.writer
    sessionPoisoned, \* a thread panicked holding the guard of Nvim.session
    pc,              \* the position of each caller thread
    msgid,           \* the local msgid of each caller's call
    elapsed,         \* instant.elapsed() of each caller's call, in delays
    gone,            \* whether the reader thread had ended when the call began
    ret,             \* the last return of call: the request's id, the Result and
                     \* the clock reading at the return
    rd,              \* the position of the reader thread
    msg,             \* the reader's last decoded msg
    response,        \* the reader's response to an inbound request
    sender,          \* the sender the reader took out of handles
    task,            \* a function of the crate applied on its own: its input
    answer,          \* and what it returned
    stream,          \* the bytes the transport has taken: what the peer reads
    bufwriter,       \* the bytes in the buffer of the BufWriter, not yet flushed
    unwritten,       \* of each thread inside write_value: the bytes still to write
    workers,         \* how many threads dispatch_read_thread has spawned
    handlesLock      \* the thread holding the guard of Client.handles

vars == <<api, inbound, sent, closed, writable, wire, msg_counter, handles, chan,
          writerLock, sessionLock, handlesPoisoned, writerPoisoned,
          sessionPoisoned, pc, msgid, elapsed, gone, ret, rd, msg, response,
          sender, task, answer, stream, bufwriter, unwritten, workers,
          handlesLock>>

peerVars == <<inbound, sent, closed, writable>>
lockVars == <<writerLock, sessionLock, handlesPoisoned, writerPoisoned, sessionPoisoned>>
callerVars == <<pc, msgid, elapsed, gone, ret, msg_counter>>
readerVars == <<rd, msg, response, sender>>
wireVars == <<stream, bufwriter, unwritten>>

NoError == [kind |-> "None", msg |-> ""]
NoReturn == [id |-> 0 - 1, res |-> Err(NoError), waited |-> 0]
NoMsg == RpcNotification("", <<>>)
NoSender == 0 - 1
NoTask == [op |-> "none"]
NoAnswer == [tag |-> "None"]

Init ==
    /\ api \in {"Nvim", "Session"}
    /\ inbound = <<>>
    /\ sent = 0
    /\ closed = FALSE
    /\ writable = TRUE
    /\ wire = <<>>
    /\ msg_counter = 0
    /\ handles = {}
    /\ chan = [i \in MsgIds |-> <<>>]
    /\ writerLock = NoThread
    /\ sessionLock = NoThread
    /\ handlesPoisoned = FALSE
    /\ writerPoisoned = FALSE
    /\ sessionPoisoned = FALSE
    /\ pc = [c \in Callers |-> "idle"]
    /\ msgid = [c \in Callers |-> 0]
    /\ elapsed = [c \in Callers |-> 0]
    /\ gone = [c \in Callers |-> FALSE]
    /\ ret = NoReturn
    /\ rd = "unstarted"
    /\ msg = NoMsg
    /\ response = NoMsg
    /\ sender = NoSender
    /\ task = NoTask
    /\ answer = NoAnswer
    /\ stream = <<>>
    /\ bufwriter = <<>>
    /\ unwritten = [t \in Threads |-> <<>>]
    /\ workers = 0
    /\ handlesLock = NoThread

\* -------------------------------------------------------------- client.rs
\* A counter that is not advanced.
NextCounterStuck(counter) == counter

\* Client::call, `self.msg_counter += 1`
NextCounter(counter) == counter + 1

\* Client::find_sender, `handles.remove(&msgid)`: the entry taken out of the
\* table, if there is one (the unwrap of None panics under the table's guard).
find_sender(table, id) ==
    IF id \in table THEN [found |-> TRUE, key |-> id] ELSE [found |-> FALSE]

\* A response branch with its test inverted.
ResponseOutcomeInverted(error, result) ==
    IF error = Nil THEN Err(MpscError("Error in RPC response")) ELSE Ok(result)

\* The reader's response branch: what it sends to the waiting caller.
ResponseOutcome(error, result) ==
    IF error # Nil THEN Err(MpscError("Error in RPC response")) ELSE Ok(result)

\* A request branch that fills the result of an error Response as well.
RequestResponseBoth(id, res) ==
    IF res.ok
    THEN RpcResponse(id, Nil, res.val)
    ELSE RpcResponse(id, ValueFromError(res.err), ValueFromError(res.err))

\* A request branch that answers every request under id 0.
RequestResponseWrongId(id, res) ==
    IF res.ok
    THEN RpcResponse(0, Nil, res.val)
    ELSE RpcResponse(0, ValueFromError(res.err), Nil)

\* A request branch that does not serialize the handler's error.
RequestResponseNoError(id, res) ==
    IF res.ok THEN RpcResponse(id, Nil, res.val) ELSE RpcResponse(id, Nil, Nil)

\* The reader's request branch: the Response built from the handler's Result.
RequestResponse(id, res) ==
    IF res.ok
    THEN RpcResponse(id, Nil, res.val)
    ELSE RpcResponse(id, ValueFromError(res.err), Nil)

\* A deadline test that is late by one reading.
TimedOutLate(e) == e > dur

\* Client::call, `instant.elapsed() >= dur`
TimedOut(e) == e >= dur

InCall(c) == pc[c] \in {"entered", "insert", "registered", "encode", "poll", "sleep"}

\* The receiver of call `id` is alive: its caller created it and has not
\* returned from call.
ReceiverAlive(id) ==
    \E c \in Callers : pc[c] \in {"registered", "encode", "poll", "sleep"} /\ msgid[c] = id

\* A caller thread unwinds from a panic (the unwrap of a poisoned lock in
\* Client::call, or Nvim::call's unwrap of an Err): it holds the session
\* guard, which poisons the session mutex; the writer guard, if it had one,
\* was dropped when Client::call returned.
CallerPanics(c) ==
    /\ pc' = [pc EXCEPT ![c] = "dead"]
    /\ msgid' = [msgid EXCEPT ![c] = 0]
    /\ elapsed' = [elapsed EXCEPT ![c] = 0]
    /\ gone' = [gone EXCEPT ![c] = FALSE]
    /\ sessionLock' = NoThread
    /\ sessionPoisoned' = TRUE
    /\ writerLock' = IF writerLock = c THEN NoThread ELSE writerLock

\* Client::call returns `res` with the clock at `e`: the receiver and the
\* writer guard are dropped.  Session::call passes the result on
\* (`Ok(client.call(..)?)`); Nvim::call unwraps it under the session guard.
Return(c, res, e) ==
    /\ ret' = [id |-> msgid[c], res |-> res, waited |-> e]
    /\ chan' = [chan EXCEPT ![msgid[c]] = <<>>]
    /\ IF api = "Nvim" /\ ~res.ok
       THEN CallerPanics(c)
       ELSE /\ pc' = [pc EXCEPT ![c] = "idle"]
            /\ msgid' = [msgid EXCEPT ![c] = 0]
            /\ elapsed' = [elapsed EXCEPT ![c] = 0]
            /\ gone' = [gone EXCEPT ![c] = FALSE]
            /\ sessionLock' = NoThread
            /\ writerLock' = IF writerLock = c THEN NoThread ELSE writerLock
            /\ UNCHANGED sessionPoisoned

\* Nvim::call, `self.session.lock().unwrap()` (or the exclusive borrow that
\* Session::call takes): one caller at a time is inside the session.
CallEnter(c) ==
    /\ pc[c] = "idle"
    /\ msg_counter < MaxCalls
    /\ sessionLock = NoThread
    /\ IF sessionPoisoned
       THEN /\ pc' = [pc EXCEPT ![c] = "dead"]
            /\ UNCHANGED <<sessionLock, gone>>
       ELSE /\ pc' = [pc EXCEPT ![c] = "entered"]
            /\ gone' = [gone EXCEPT ![c] = rd \in {"exited", "panicked"}]
            /\ sessionLock' = c
    /\ UNCHANGED <<api, workers, handlesLock, task, answer, wireVars, peerVars, wire, msg_counter, handles, chan, writerLock,
                   handlesPoisoned, writerPoisoned, sessionPoisoned, msgid,
                   elapsed, ret, readerVars>>

\* A call that does not insert its sender before it writes.
CallRegisterNoInsert(c) ==
    /\ pc[c] = "entered"
    /\ msg_counter' = NextCounter(msg_counter)
    /\ IF handlesPoisoned
       THEN /\ CallerPanics(c)
            /\ UNCHANGED <<handles, handlesPoisoned, writerPoisoned>>
       ELSE /\ msgid' = [msgid EXCEPT ![c] = msg_counter]
            /\ pc' = [pc EXCEPT ![c] = "registered"]
            /\ UNCHANGED <<handles, elapsed, gone, lockVars>>
    /\ UNCHANGED <<api, workers, handlesLock, task, answer, wireVars, peerVars, wire, chan, ret, readerVars>>

\* Client::call lines 49-60: take the id, advance the counter, create the
\* channel and insert its sender in the table.
CallRegister(c) ==
    /\ pc[c] = "entered"
    /\ msg_counter' = NextCounter(msg_counter)
    /\ IF handlesPoisoned
       THEN /\ CallerPanics(c)
            /\ UNCHANGED <<handles, handlesPoisoned, writerPoisoned>>
       ELSE /\ msgid' = [msgid EXCEPT ![c] = msg_counter]
            /\ handles' = handles \cup {msg_counter}
            /\ pc' = [pc EXCEPT ![c] = "registered"]
            /\ UNCHANGED <<elapsed, gone, lockVars>>
    /\ UNCHANGED <<api, workers, handlesLock, task, answer, wireVars, peerVars, wire, chan, ret, readerVars>>

\* A call that undoes its registration when the write fails.
CallWriteRollsBack(c) ==
    /\ pc[c] = "registered"
    /\ writerLock = NoThread
    /\ IF writerPoisoned
       THEN /\ CallerPanics(c)
            /\ UNCHANGED <<wire, chan, ret, handles>>
       ELSE IF writable
       THEN /\ wire' = Append(wire, encode(RpcRequest(msgid[c], "nvim_call", <<>>)))
            /\ writerLock' = c
            /\ pc' = [pc EXCEPT ![c] = "poll"]
            /\ UNCHANGED <<chan, ret, msgid, elapsed, gone, sessionLock,
                           sessionPoisoned, handles>>
       ELSE /\ Return(c, Err(ConnectionError("write failed")), 0)
            /\ handles' = handles \ {msgid[c]}
            /\ UNCHANGED wire
    /\ UNCHANGED <<api, workers, handlesLock, task, answer, wireVars, peerVars, msg_counter, handlesPoisoned,
                   writerPoisoned, readerVars>>

\* Client::call lines 62-67: take the writer guard (kept until call returns),
\* encode and flush the request, start the clock.
CallWrite(c) ==
    /\ pc[c] = "registered"
    /\ writerLock = NoThread
    /\ IF writerPoisoned
       THEN /\ CallerPanics(c)
            /\ UNCHANGED <<wire, chan, ret>>
       ELSE IF writable
       THEN /\ wire' = Append(wire, encode(RpcRequest(msgid[c], "nvim_call", <<>>)))
            /\ writerLock' = c
            /\ pc' = [pc EXCEPT ![c] = "poll"]
            /\ UNCHANGED <<chan, ret, msgid, elapsed, gone, sessionLock,
                           sessionPoisoned>>
       ELSE /\ Return(c, Err(ConnectionError("write failed")), 0)
            /\ UNCHANGED wire
    /\ UNCHANGED <<api, workers, handlesLock, task, answer, wireVars, peerVars, msg_counter, handles, handlesPoisoned,
                   writerPoisoned, readerVars>>

\* Client::call lines 69, 78-83: one try_recv.
CallPoll(c) ==
    /\ pc[c] = "poll"
    /\ IF chan[msgid[c]] # <<>>
       THEN Return(c, Head(chan[msgid[c]]), elapsed[c])
       ELSE IF msgid[c] \notin handles /\ sender # msgid[c]
       THEN Return(c, Err(MpscError("Channel disconnected while waiting for RPC response")),
                   elapsed[c])
       ELSE /\ pc' = [pc EXCEPT ![c] = "sleep"]
            /\ UNCHANGED <<chan, ret, msgid, elapsed, gone, writerLock,
                           sessionLock, sessionPoisoned>>
    /\ UNCHANGED <<api, workers, handlesLock, task, answer, wireVars, peerVars, wire, msg_counter, handles, handlesPoisoned,
                   writerPoisoned, readerVars>>

\* Client::call lines 71-76: sleep one delay, or up to one delay longer, then
\* test the clock.
CallSleep(c, jitter) ==
    /\ pc[c] = "sleep"
    /\ IF TimedOut(elapsed[c] + delay + jitter)
       THEN Return(c, Err(TimeoutError("Timeout when waiting for RPC response")),
                   elapsed[c] + delay + jitter)
       ELSE /\ elapsed' = [elapsed EXCEPT ![c] = @ + delay + jitter]
            /\ pc' = [pc EXCEPT ![c] = "poll"]
            /\ UNCHANGED <<chan, ret, msgid, gone, writerLock, sessionLock,
                           sessionPoisoned>>
    /\ UNCHANGED <<api, workers, handlesLock, task, answer, wireVars, peerVars, wire, msg_counter, handles, handlesPoisoned,
                   writerPoisoned, readerVars>>

\* Client::start_event_loop: take the reader out of the client and spawn the
\* reader thread.
StartEventLoop ==
    /\ rd = "unstarted"
    /\ sessionLock = NoThread
    /\ ~sessionPoisoned
    /\ rd' = "decode"
    /\ workers' = workers + 1
    /\ UNCHANGED <<api, handlesLock, task, answer, wireVars, peerVars, wire, handles, chan, lockVars, callerVars,
                   msg, response, sender>>

\* A reader slot that is never emptied.
reader_take_keeps(taken) == "Some"

\* start_event_loop line 104, `self.reader.take()`: Some(reader) the first
\* time, None once the reader has been taken.
reader_take(taken) == IF taken THEN "None" ELSE "Some"

\* start_event_loop called by the thread c on a client whose event loop was
\* started before: the unwrap of line 104 panics on the empty slot, before
\* dispatch_read_thread is called, and the thread unwinds (through
\* Nvim::start_event_loop with the session guard, which poisons it).
StartEventLoopAgain(c) ==
    /\ rd # "unstarted"
    /\ pc[c] = "idle"
    /\ sessionLock = NoThread
    /\ ~sessionPoisoned
    /\ IF reader_take(TRUE) = "None"
       THEN /\ pc' = [pc EXCEPT ![c] = "dead"]
            /\ sessionPoisoned' = (api = "Nvim")
            /\ UNCHANGED workers
       ELSE /\ workers' = workers + 1
            /\ UNCHANGED <<pc, sessionPoisoned>>
    /\ UNCHANGED <<api, handlesLock, task, answer, wireVars, peerVars, wire, handles, chan, writerLock,
                   sessionLock, handlesPoisoned, writerPoisoned, msgid, elapsed, gone,
                   ret, msg_counter, readerVars>>

\* A reader that reads the stream whether or not the event loop was started.
CanReadUnstarted == rd \in {"unstarted", "decode"} /\ inbound # <<>>

\* The reader thread is at rpc::decode and the stream has a value for it: the
\* thread exists once start_event_loop has moved the reader into it.
CanRead == rd = "decode" /\ inbound # <<>>

\* dispatch_read_thread lines 121-153 and 162: decode one frame and branch on
\* it; a Request goes to the request handler `handler`, a Response takes its
\* sender out of the table, a Notification is moved to the notification handler.
ReaderDecodeWith(h) ==
    /\ CanRead
    /\ inbound' = Tail(inbound)
    /\ LET d == decode(Head(inbound)) IN
       IF d.tag = "Panic"
       THEN /\ rd' = "panicked"
            /\ UNCHANGED <<msg, response, sender, handles, handlesPoisoned>>
       ELSE IF d.tag = "Err"
       THEN /\ rd' = "exited"
            /\ UNCHANGED <<msg, response, sender, handles, handlesPoisoned>>
       ELSE IF d.msg.type = "RpcRequest"
               THEN /\ msg' = d.msg
                    /\ response' = RequestResponse(d.msg.msgid,
                                       dyn_handle_request(h, d.msg.msgid, d.msg.method, d.msg.params))
                    /\ rd' = "respond"
                    /\ UNCHANGED <<sender, handles, handlesPoisoned>>
               ELSE IF d.msg.type = "RpcResponse"
               THEN LET s == find_sender(handles, d.msg.msgid) IN
                    IF handlesPoisoned \/ ~s.found
                    THEN /\ rd' = "panicked"
                         /\ handlesPoisoned' = TRUE
                         /\ UNCHANGED <<msg, response, sender, handles>>
                    ELSE /\ rd' = "send"
                         /\ msg' = d.msg
                         /\ sender' = s.key
                         /\ handles' = handles \ {s.key}
                         /\ UNCHANGED <<response, handlesPoisoned>>
               ELSE /\ rd' = "notify"
                    /\ msg' = d.msg
                    /\ UNCHANGED <<response, sender, handles, handlesPoisoned>>
    /\ UNCHANGED <<api, workers, handlesLock, task, answer, wireVars, sent, closed, writable, wire, chan, writerLock,
                   sessionLock, writerPoisoned, sessionPoisoned, callerVars>>

\* The reader with the default request handler (start_event_loop given None).
ReaderDecode == ReaderDecodeWith("DefaultHandler")

\* A notification branch that acknowledges the notification on the wire.
ReaderNotifyAcks(outcome) ==
    /\ rd = "notify"
    /\ rd' = IF outcome = "returned" THEN "decode" ELSE "panicked"
    /\ wire' = Append(wire, encode(RpcResponse(0, Nil, Nil)))
    /\ msg' = NoMsg
    /\ UNCHANGED <<api, workers, handlesLock, task, answer, wireVars, peerVars, handles, chan, lockVars,
                   callerVars, response, sender>>

\* dispatch_read_thread lines 162-164: the notification handler runs on the
\* reader thread with the frame's method and params; if it panics the thread
\* unwinds (nothing catches it).
ReaderNotify(outcome) ==
    /\ rd = "notify"
    /\ rd' = IF outcome = "returned" THEN "decode" ELSE "panicked"
    /\ msg' = NoMsg
    /\ UNCHANGED <<api, workers, handlesLock, task, answer, wireVars, peerVars, wire, handles, chan, lockVars,
                   callerVars, response, sender>>

\* rpc::decode line 94: read_value fails at the end of the stream and the
\* unwrap panics.
ReaderEof ==
    /\ rd = "decode"
    /\ inbound = <<>>
    /\ closed
    /\ rd' = "panicked"
    /\ UNCHANGED <<api, workers, handlesLock, task, answer, wireVars, peerVars, wire, handles, chan, lockVars, callerVars,
                   msg, response, sender>>

\* A response branch that drops the sender it took without sending on it.
ReaderSendDrops ==
    /\ rd = "send"
    /\ rd' = "decode"
    /\ sender' = NoSender
    /\ msg' = NoMsg
    /\ UNCHANGED <<api, workers, handlesLock, task, answer, wireVars, peerVars, wire, handles, chan,
                   lockVars, callerVars, response>>

\* dispatch_read_thread lines 154-160: send the outcome on the sender taken
\* from the table; send fails when the receiver is gone, and the unwrap panics.
ReaderSend ==
    /\ rd = "send"
    /\ IF ReceiverAlive(sender)
       THEN /\ chan' = [chan EXCEPT ![sender] = Append(@, ResponseOutcome(msg.error, msg.result))]
            /\ rd' = "decode"
       ELSE /\ rd' = "panicked"
            /\ UNCHANGED chan
    /\ sender' = NoSender
    /\ msg' = NoMsg
    /\ UNCHANGED <<api, workers, handlesLock, task, answer, wireVars, peerVars, wire, handles, lockVars, callerVars, response>>

\* dispatch_read_thread lines 145-146: take the writer guard, encode and flush
\* the response, unwrap; the guard is dropped at the end of the branch.
ReaderRespond ==
    /\ rd = "respond"
    /\ writerLock = NoThread
    /\ IF writerPoisoned
       THEN /\ rd' = "panicked"
            /\ UNCHANGED <<wire, writerPoisoned>>
       ELSE IF writable
       THEN /\ wire' = Append(wire, encode(response))
            /\ rd' = "decode"
            /\ UNCHANGED writerPoisoned
       ELSE /\ rd' = "panicked"
            /\ writerPoisoned' = TRUE
            /\ UNCHANGED wire
    /\ msg' = NoMsg
    /\ response' = NoMsg
    /\ UNCHANGED <<api, workers, handlesLock, task, answer, wireVars, peerVars, handles, chan, writerLock, sessionLock,
                   handlesPoisoned, sessionPoisoned, callerVars, sender>>

\* ---------------------------------------------------------------- the peer
\* The reader cannot tell a value that waits in the socket buffer from one
\* that arrives when it reads, so the next value is written once the reader
\* has taken the previous one.
PeerSend(f) ==
    /\ ~closed
    /\ inbound = <<>>
    /\ sent < MaxFrames
    /\ inbound' = Append(inbound, f)
    /\ sent' = sent + 1
    /\ UNCHANGED <<api, workers, handlesLock, task, answer, wireVars, closed, writable, wire, handles, chan, lockVars,
                   callerVars, readerVars>>

PeerClose ==
    /\ ~closed
    /\ inbound = <<>>
    /\ closed' = TRUE
    /\ UNCHANGED <<api, workers, handlesLock, task, answer, wireVars, inbound, sent, writable, wire, handles, chan, lockVars,
                   callerVars, readerVars>>

\* The writer half starts failing (the peer stopped reading, the socket broke).
TransportFail ==
    /\ writable
    /\ writable' = FALSE
    /\ UNCHANGED <<api, workers, handlesLock, task, answer, wireVars, inbound, sent, closed, wire, handles, chan, lockVars,
                   callerVars, readerVars>>

Next ==
    \/ \E c \in Callers : CallEnter(c)
    \/ \E c \in Callers : CallRegister(c)
    \/ \E c \in Callers : CallWrite(c)
    \/ \E c \in Callers : CallPoll(c)
    \/ \E c \in Callers, j \in 0..delay : CallSleep(c, j)
    \/ StartEventLoop
    \/ ReaderDecode
    \/ ReaderEof
    \/ ReaderSend
    \/ ReaderRespond
    \/ ReaderNotify(handle_notification(msg.method, msg.params))
    \/ \E f \in PeerFrames : PeerSend(f)
    \/ PeerClose
    \/ TransportFail

Spec == Init /\ [][Next]_vars

\* The frames of a peer that answers no request.
NonResponseFrames ==
    {f \in PeerFrames : decode(f).tag # "Ok" \/ decode(f).msg.type # "RpcResponse"}

\* The client against a peer that never sends a Response.
NextSilent ==
    \/ \E c \in Callers : CallEnter(c)
    \/ \E c \in Callers : CallRegister(c)
    \/ \E c \in Callers : CallWrite(c)
    \/ \E c \in Callers : CallPoll(c)
    \/ \E c \in Callers, j \in 0..delay : CallSleep(c, j)
    \/ StartEventLoop
    \/ ReaderDecode
    \/ ReaderEof
    \/ ReaderRespond
    \/ ReaderNotify(handle_notification(msg.method, msg.params))
    \/ \E f \in NonResponseFrames : PeerSend(f)
    \/ PeerClose
    \/ TransportFail

\* A caller thread that can take a step of its wait loop takes one: the
\* scheduler runs every thread, and try_recv and sleep return.
SilentSpec ==
    /\ Init
    /\ [][NextSilent]_vars
    /\ \A c \in Callers :
          WF_vars(CallPoll(c)) /\ WF_vars(\E j \in 0..delay : CallSleep(c, j))

\* ------------------------------------------- starting the event loop again
\* The client whose threads may call start_event_loop a second time.
NextRestart ==
    \/ \E c \in Callers : CallEnter(c)
    \/ \E c \in Callers : CallRegister(c)
    \/ \E c \in Callers : CallWrite(c)
    \/ \E c \in Callers : CallPoll(c)
    \/ \E c \in Callers, j \in 0..delay : CallSleep(c, j)
    \/ StartEventLoop
    \/ \E c \in Callers : StartEventLoopAgain(c)
    \/ ReaderDecode
    \/ ReaderEof
    \/ ReaderSend
    \/ ReaderRespond
    \/ ReaderNotify(handle_notification(msg.method, msg.params))
    \/ \E f \in RestartFrames : PeerSend(f)
    \/ PeerClose
    \/ TransportFail

RestartSpec == Init /\ [][NextRestart]_vars

\* ------------------------------------------------------ dropping the session
\* The last handle of the session is dropped while no call is in progress:
\* the Client is dropped with it.  If the event loop was never started the
\* Client still owns the reader and the only reference to the writer, and both
\* halves are closed.  If it was started, the reader thread (detached: its
\* JoinHandle was dropped) owns the reader and holds clones of the writer and
\* of the table, and the drop changes nothing for it.
SessionDrop ==
    /\ \A c \in Callers : pc[c] \in {"idle", "dead"}
    /\ sessionLock = NoThread
    /\ pc' = [c \in Callers |-> "dropped"]
    /\ rd' = IF rd = "unstarted" THEN "dropped" ELSE rd
    /\ UNCHANGED <<api, workers, handlesLock, task, answer, wireVars, peerVars, wire, handles, chan, lockVars,
                   msgid, elapsed, gone, ret, msg_counter, msg, response, sender>>

NextDrop == Next \/ SessionDrop

DropSpec == Init /\ [][NextDrop]_vars

\* ------------------------------------------------- the codec on its own
\* rmpv's write_value, as rpc::encode calls it: the msgpack stream of a value,
\* one element per marker (a scalar or an extension with its marker, an array
\* marker with its length followed by the elements, a map marker with its
\* number of pairs followed by each key and value).
RECURSIVE write_value(_)
write_value(val) ==
    IF val.k = "Nil" THEN <<[t |-> "nil"]>>
    ELSE IF val.k = "Integer" THEN <<[t |-> "int", n |-> val.v]>>
    ELSE IF val.k = "String" THEN <<[t |-> "str", s |-> val.v]>>
    ELSE IF val.k = "Boolean" THEN <<[t |-> "bool", b |-> val.v]>>
    ELSE IF val.k = "F64" THEN <<[t |-> "f64", x |-> val.v]>>
    ELSE IF val.k = "Ext" THEN <<[t |-> "ext", ty |-> val.v[1], data |-> val.v[2]]>>
    ELSE LET RECURSIVE items(_), pairs(_)
             items(xs) == IF xs = <<>> THEN <<>>
                          ELSE write_value(Head(xs)) \o items(Tail(xs))
             pairs(ps) == IF ps = <<>> THEN <<>>
                          ELSE write_value(Head(ps)[1]) \o write_value(Head(ps)[2])
                                   \o pairs(Tail(ps))
         IN IF val.k = "Map"
            THEN <<[t |-> "map", n |-> Len(val.v)]>> \o pairs(val.v)
            ELSE <<[t |-> "arr", n |-> Len(val.v)]>> \o items(val.v)

\* rmpv's read_value, as rpc::decode calls it: the first value of the stream
\* and the rest of the stream, or an error when the stream ends inside it.
RECURSIVE read_value(_), read_items(_, _)
read_value(bytes) ==
    IF bytes = <<>> THEN [ok |-> FALSE]
    ELSE LET h == Head(bytes) IN
         IF h.t = "nil" THEN [ok |-> TRUE, val |-> Nil, rest |-> Tail(bytes)]
         ELSE IF h.t = "int"
         THEN [ok |-> TRUE, val |-> Integer(h.n), rest |-> Tail(bytes)]
         ELSE IF h.t = "str"
         THEN [ok |-> TRUE, val |-> String(h.s), rest |-> Tail(bytes)]
         ELSE IF h.t = "bool"
         THEN [ok |-> TRUE, val |-> Boolean(h.b), rest |-> Tail(bytes)]
         ELSE IF h.t = "f64"
         THEN [ok |-> TRUE, val |-> F64(h.x), rest |-> Tail(bytes)]
         ELSE IF h.t = "ext"
         THEN [ok |-> TRUE, val |-> Ext(h.ty, h.data), rest |-> Tail(bytes)]
         ELSE IF h.t = "map"
         THEN LET r == read_items(Tail(bytes), 2 * h.n) IN
              IF r.ok
              THEN [ok |-> TRUE,
                    val |-> Map([i \in 1..h.n |-> <<r.val[2 * i - 1], r.val[2 * i]>>]),
                    rest |-> r.rest]
              ELSE [ok |-> FALSE]
         ELSE LET r == read_items(Tail(bytes), h.n) IN
              IF r.ok THEN [ok |-> TRUE, val |-> Array(r.val), rest |-> r.rest]
              ELSE [ok |-> FALSE]

read_items(bytes, n) ==
    IF n = 0 THEN [ok |-> TRUE, val |-> <<>>, rest |-> bytes]
    ELSE LET r == read_value(bytes) IN
         IF ~r.ok THEN [ok |-> FALSE]
         ELSE LET rs == read_items(r.rest, n - 1) IN
              IF rs.ok
              THEN [ok |-> TRUE, val |-> <<r.val>> \o rs.val, rest |-> rs.rest]
              ELSE [ok |-> FALSE]

\* rpc::decode on a reader: `read_value(reader).unwrap()`, then the match.
decode_reader(bytes) ==
    LET r == read_value(bytes) IN IF r.ok THEN decode(r.val) ELSE Panic

\* The values frames are made of in the codec's runs.
FieldValues ==
    {Nil, Integer(0), Integer(0 - 1), String("bad"), Array(<<>>),
     Array(<<Nil, Integer(1)>>)}

ParamLists == {<<>>, <<Nil>>, <<Integer(0 - 1), String("a")>>, <<Array(<<Integer(2)>>)>>}

Methods == {"", "m"}

\* Every frame with an id up to MaxId.
Frames ==
    {RpcRequest(i, m, p) : i \in 0..MaxId, m \in Methods, p \in ParamLists}
        \cup {RpcResponse(i, e, r) : i \in 0..MaxId, e \in FieldValues, r \in FieldValues}
        \cup {RpcNotification(m, p) : m \in Methods, p \in ParamLists}

\* The elements of the arrays handed to decode.
Elements ==
    {Integer(0 - 1), Integer(0), Integer(1), Integer(2), String("m"), Array(<<>>)}

\* The sequences of up to n elements.
Tuples(n) == UNION {[1..k -> Elements] : k \in 0..n}

\* The values a peer can send: the arrays of up to n elements, and values
\* that are not arrays.
RawValues(n) == {Array(xs) : xs \in Tuples(n)} \cup {Nil, Integer(1), String("m")}

\* The streams decode can be given: a whole value, or a stream that ends
\* before the value does (the empty stream among them).
Streams(n) ==
    UNION {LET w == write_value(v) IN {SubSeq(w, 1, k) : k \in 0..Len(w)} :
           v \in RawValues(n)}

mainVars == <<api, inbound, sent, closed, writable, wire, msg_counter, handles,
              chan, writerLock, sessionLock, handlesPoisoned, writerPoisoned,
              sessionPoisoned, pc, msgid, elapsed, gone, ret, rd, msg, response,
              sender, stream, bufwriter, unwritten, workers, handlesLock>>

\* The state in which a function of the crate is applied on its own to one of
\* `tasks`: no client is running.
HarnessInit(tasks) ==
    /\ api = "Session"
    /\ inbound = <<>>
    /\ sent = 0
    /\ closed = FALSE
    /\ writable = TRUE
    /\ wire = <<>>
    /\ msg_counter = 0
    /\ handles = {}
    /\ chan = [i \in MsgIds |-> <<>>]
    /\ writerLock = NoThread
    /\ sessionLock = NoThread
    /\ handlesPoisoned = FALSE
    /\ writerPoisoned = FALSE
    /\ sessionPoisoned = FALSE
    /\ pc = [c \in Callers |-> "idle"]
    /\ msgid = [c \in Callers |-> 0]
    /\ elapsed = [c \in Callers |-> 0]
    /\ gone = [c \in Callers |-> FALSE]
    /\ ret = NoReturn
    /\ rd = "unstarted"
    /\ msg = NoMsg
    /\ response = NoMsg
    /\ sender = NoSender
    /\ task \in tasks
    /\ answer = NoAnswer
    /\ stream = <<>>
    /\ bufwriter = <<>>
    /\ unwritten = [t \in Threads |-> <<>>]
    /\ workers = 0
    /\ handlesLock = NoThread

\* rpc::encode of the frame into a buffer.
EncodeFrame ==
    /\ task.op = "encode"
    /\ answer = NoAnswer
    /\ answer' = [tag |-> "Written", bytes |-> write_value(encode(task.frame))]
    /\ UNCHANGED <<mainVars, task>>

\* rpc::decode of the buffer the frame was encoded into.
DecodeWritten ==
    /\ task.op = "encode"
    /\ answer.tag = "Written"
    /\ answer' = decode_reader(answer.bytes)
    /\ UNCHANGED <<mainVars, task>>

\* rpc::decode of a stream the peer wrote.
DecodeStream ==
    /\ task.op = "decode"
    /\ answer = NoAnswer
    /\ answer' = decode_reader(task.bytes)
    /\ UNCHANGED <<mainVars, task>>

\* Frames encoded and decoded again.
RoundTripNext == EncodeFrame \/ DecodeWritten

RoundTripSpec ==
    /\ HarnessInit({[op |-> "encode", frame |-> f] : f \in Frames})
    /\ [][RoundTripNext]_vars

\* decode on the streams of a peer.
DecodeSpec ==
    /\ HarnessInit({[op |-> "decode", bytes |-> b] : b \in Streams(MaxArr)})
    /\ [][DecodeStream]_vars

\* ------------------------------------------- the writer, write by write
\* A lock that excludes nobody.
WriterFreeAlways == TRUE

\* Mutex::lock on Client.writer returns: no thread holds the guard.
WriterFree == writerLock = NoThread

\* Client::call line 62: take the writer guard; line 63 enters rpc::encode,
\* whose write_value has the bytes of the Request to write.
CallLockWriter(c) ==
    /\ pc[c] = "registered"
    /\ WriterFree
    /\ IF writerPoisoned
       THEN /\ CallerPanics(c)
            /\ UNCHANGED unwritten
       ELSE /\ writerLock' = c
            /\ pc' = [pc EXCEPT ![c] = "encode"]
            /\ unwritten' = [unwritten EXCEPT ![c] =
                                write_value(encode(RpcRequest(msgid[c], "nvim_call", <<>>)))]
            /\ UNCHANGED <<msgid, elapsed, gone, sessionLock, sessionPoisoned>>
    /\ UNCHANGED <<api, workers, handlesLock, task, answer, peerVars, wire, msg_counter, handles, chan, ret,
                   handlesPoisoned, writerPoisoned, readerVars, stream, bufwriter>>

\* rpc::encode line 146, inside write_value: one write to the BufWriter.
CallEncode(c) ==
    /\ pc[c] = "encode"
    /\ unwritten[c] # <<>>
    /\ bufwriter' = Append(bufwriter, Head(unwritten[c]))
    /\ unwritten' = [unwritten EXCEPT ![c] = Tail(@)]
    /\ UNCHANGED <<api, workers, handlesLock, task, answer, peerVars, wire, handles, chan, lockVars,
                   callerVars, readerVars, stream>>

\* rpc::encode line 164, `writer.flush()?`: the buffer goes to the transport,
\* or the error is returned from call and the bytes stay in the buffer; then
\* Client::call lines 65-67 start the clock.
CallFlush(c) ==
    /\ pc[c] = "encode"
    /\ unwritten[c] = <<>>
    /\ IF writable
       THEN /\ stream' = stream \o bufwriter
            /\ bufwriter' = <<>>
            /\ wire' = Append(wire, encode(RpcRequest(msgid[c], "nvim_call", <<>>)))
            /\ pc' = [pc EXCEPT ![c] = "poll"]
            /\ UNCHANGED <<chan, ret, msgid, elapsed, gone, writerLock, sessionLock,
                           sessionPoisoned>>
       ELSE /\ Return(c, Err(ConnectionError("write failed")), 0)
            /\ UNCHANGED <<wire, stream, bufwriter>>
    /\ UNCHANGED <<api, workers, handlesLock, task, answer, peerVars, msg_counter, handles, handlesPoisoned,
                   writerPoisoned, readerVars, unwritten>>

\* dispatch_read_thread line 145: take the writer guard; line 146 enters
\* rpc::encode with the response.
ReaderLockWriter ==
    /\ rd = "respond"
    /\ WriterFree
    /\ IF writerPoisoned
       THEN /\ rd' = "panicked"
            /\ msg' = NoMsg
            /\ response' = NoMsg
            /\ UNCHANGED <<writerLock, unwritten>>
       ELSE /\ rd' = "encode"
            /\ writerLock' = ReaderThread
            /\ unwritten' = [unwritten EXCEPT ![ReaderThread] = write_value(encode(response))]
            /\ UNCHANGED <<msg, response>>
    /\ UNCHANGED <<api, workers, handlesLock, task, answer, peerVars, wire, handles, chan, sessionLock,
                   handlesPoisoned, writerPoisoned, sessionPoisoned, callerVars, sender,
                   stream, bufwriter>>

\* rpc::encode, inside write_value, on the reader thread.
ReaderEncode ==
    /\ rd = "encode"
    /\ unwritten[ReaderThread] # <<>>
    /\ bufwriter' = Append(bufwriter, Head(unwritten[ReaderThread]))
    /\ unwritten' = [unwritten EXCEPT ![ReaderThread] = Tail(@)]
    /\ UNCHANGED <<api, workers, handlesLock, task, answer, peerVars, wire, handles, chan, lockVars,
                   callerVars, readerVars, stream>>

\* rpc::encode line 164 on the reader thread and the unwrap of line 146; the
\* guard is dropped at the end of the branch, or by the unwinding.
ReaderFlush ==
    /\ rd = "encode"
    /\ unwritten[ReaderThread] = <<>>
    /\ IF writable
       THEN /\ stream' = stream \o bufwriter
            /\ bufwriter' = <<>>
            /\ wire' = Append(wire, encode(response))
            /\ rd' = "decode"
            /\ UNCHANGED writerPoisoned
       ELSE /\ rd' = "panicked"
            /\ writerPoisoned' = TRUE
            /\ UNCHANGED <<wire, stream, bufwriter>>
    /\ writerLock' = IF writerLock = ReaderThread THEN NoThread ELSE writerLock
    /\ msg' = NoMsg
    /\ response' = NoMsg
    /\ UNCHANGED <<api, workers, handlesLock, task, answer, peerVars, handles, chan, sessionLock,
                   handlesPoisoned, sessionPoisoned, callerVars, sender, unwritten>>

\* The frames of the peer in the runs that follow every write.
WireFrames ==
    {encode(RpcRequest(7, "foo", <<>>)),
     encode(RpcNotification("ev", <<>>)),
     encode(RpcResponse(0, Nil, Payload(0)))}

\* The client with every write to the BufWriter a step of its own.
NextWire ==
    \/ \E c \in Callers : CallEnter(c)
    \/ \E c \in Callers : CallRegister(c)
    \/ \E c \in Callers : CallLockWriter(c)
    \/ \E c \in Callers : CallEncode(c)
    \/ \E c \in Callers : CallFlush(c)
    \/ \E c \in Callers : CallPoll(c)
    \/ \E c \in Callers, j \in 0..delay : CallSleep(c, j)
    \/ StartEventLoop
    \/ ReaderDecode
    \/ ReaderEof
    \/ ReaderSend
    \/ ReaderLockWriter
    \/ ReaderEncode
    \/ ReaderFlush
    \/ ReaderNotify(handle_notification(msg.method, msg.params))
    \/ \E f \in WireFrames : PeerSend(f)
    \/ PeerClose
    \/ TransportFail

WireSpec == Init /\ [][NextWire]_vars

\* ------------------------------------------- the two locks, step by step
\* Client::call lines 49-60, up to `self.handles.lock().unwrap()`: take the id,
\* advance the counter, create the channel and take the guard of the table.
CallLockHandles(c) ==
    /\ pc[c] = "entered"
    /\ handlesLock = NoThread
    /\ msg_counter' = NextCounter(msg_counter)
    /\ IF handlesPoisoned
       THEN /\ CallerPanics(c)
            /\ UNCHANGED handlesLock
       ELSE /\ msgid' = [msgid EXCEPT ![c] = msg_counter]
            /\ pc' = [pc EXCEPT ![c] = "insert"]
            /\ handlesLock' = c
            /\ UNCHANGED <<elapsed, gone, writerLock, sessionLock, sessionPoisoned>>
    /\ UNCHANGED <<api, workers, task, answer, wireVars, peerVars, wire, handles, chan,
                   ret, handlesPoisoned, writerPoisoned, readerVars>>

\* A call that binds the guard of the table to a variable: the guard lives to
\* the end of call.
CallInsertKeepsGuard(c) ==
    /\ pc[c] = "insert"
    /\ handles' = handles \cup {msgid[c]}
    /\ pc' = [pc EXCEPT ![c] = "registered"]
    /\ UNCHANGED <<api, workers, handlesLock, task, answer, wireVars, peerVars, wire,
                   chan, lockVars, msgid, elapsed, gone, ret, msg_counter, readerVars>>

\* Client::call line 60, `.insert(msgid, sender);`: the entry goes in the
\* table and the temporary guard is dropped at the end of the statement.
CallInsert(c) ==
    /\ pc[c] = "insert"
    /\ handles' = handles \cup {msgid[c]}
    /\ handlesLock' = NoThread
    /\ pc' = [pc EXCEPT ![c] = "registered"]
    /\ UNCHANGED <<api, workers, task, answer, wireVars, peerVars, wire, chan, lockVars,
                   msgid, elapsed, gone, ret, msg_counter, readerVars>>

\* dispatch_read_thread lines 121-153: decode one frame; a Response takes the
\* reader to find_sender, every other frame is handled as in ReaderDecodeWith.
ReaderDecodeFrame(h) ==
    IF CanRead /\ decode(Head(inbound)).tag = "Ok"
          /\ decode(Head(inbound)).msg.type = "RpcResponse"
    THEN /\ inbound' = Tail(inbound)
         /\ msg' = decode(Head(inbound)).msg
         /\ rd' = "find"
         /\ UNCHANGED <<api, workers, handlesLock, task, answer, wireVars, sent, closed,
                        writable, wire, handles, chan, lockVars, callerVars, response,
                        sender>>
    ELSE ReaderDecodeWith(h)

\* find_sender line 90, `handles.lock().unwrap()`
ReaderLockHandles ==
    /\ rd = "find"
    /\ handlesLock = NoThread
    /\ IF handlesPoisoned
       THEN /\ rd' = "panicked"
            /\ UNCHANGED handlesLock
       ELSE /\ rd' = "remove"
            /\ handlesLock' = ReaderThread
    /\ UNCHANGED <<api, workers, task, answer, wireVars, peerVars, wire, handles, chan,
                   lockVars, callerVars, msg, response, sender>>

\* find_sender lines 91-92, `handles.remove(&msgid).unwrap()`: the guard is
\* dropped when find_sender returns, or by the unwinding, which poisons it.
ReaderRemove ==
    /\ rd = "remove"
    /\ LET s == find_sender(handles, msg.msgid) IN
       IF s.found
       THEN /\ rd' = "send"
            /\ sender' = s.key
            /\ handles' = handles \ {s.key}
            /\ UNCHANGED <<msg, handlesPoisoned>>
       ELSE /\ rd' = "panicked"
            /\ handlesPoisoned' = TRUE
            /\ UNCHANGED <<msg, sender, handles>>
    /\ handlesLock' = NoThread
    /\ UNCHANGED <<api, workers, task, answer, wireVars, peerVars, wire, chan, writerLock,
                   sessionLock, writerPoisoned, sessionPoisoned, callerVars, response>>

\* The client with the taking and the release of each of the two locks a step
\* of its own.
NextLock ==
    \/ \E c \in Callers : CallEnter(c)
    \/ \E c \in Callers : CallLockHandles(c)
    \/ \E c \in Callers : CallInsert(c)
    \/ \E c \in Callers : CallLockWriter(c)
    \/ \E c \in Callers : CallEncode(c)
    \/ \E c \in Callers : CallFlush(c)
    \/ \E c \in Callers : CallPoll(c)
    \/ \E c \in Callers, j \in 0..delay : CallSleep(c, j)
    \/ StartEventLoop
    \/ ReaderDecodeFrame("DefaultHandler")
    \/ ReaderEof
    \/ ReaderLockHandles
    \/ ReaderRemove
    \/ ReaderSend
    \/ ReaderLockWriter
    \/ ReaderEncode
    \/ ReaderFlush
    \/ ReaderNotify(handle_notification(msg.method, msg.params))
    \/ \E f \in WireFrames : PeerSend(f)
    \/ PeerClose
    \/ TransportFail

LockSpec == Init /\ [][NextLock]_vars

\* ------------------------------------------------ api/convert.rs: AsValue
\* An argument of an API method: its Rust type and its content.
Arg(ty, content) == [ty |-> ty, content |-> content]

\* A Buffer, Tabpage or Window: the Value it was made from (Buffer::new).
Handle(data) == [data |-> data]

\* AsValue::convert, one branch per impl.
convert(arg) ==
    IF arg.ty \in {"u64", "i64"} THEN Integer(arg.content)
    ELSE IF arg.ty = "f64" THEN F64(arg.content)
    ELSE IF arg.ty = "bool" THEN Boolean(arg.content)
    ELSE IF arg.ty = "(i64, i64)" THEN Integer(0)
    ELSE IF arg.ty = "Value" THEN arg.content
    ELSE IF arg.ty = "String" THEN String(arg.content)
    ELSE IF arg.ty = "Vec<Value>" THEN Array(arg.content)
    ELSE IF arg.ty = "Vec<String>"
    THEN Array([i \in 1..Len(arg.content) |-> String(arg.content[i])])
    ELSE IF arg.ty \in {"Buffer", "Tabpage", "Window"} THEN arg.content.data
    ELSE Map(arg.content)

\* value_vec!: `vec![$(AsValue::convert(&$arg), )*]`
value_vec(args) == [i \in 1..Len(args) |-> convert(args[i])]

\* Arguments of every type that has an impl of AsValue.
Args ==
    {Arg("u64", 0), Arg("u64", 2), Arg("i64", 0 - 1), Arg("f64", 1),
     Arg("bool", TRUE), Arg("(i64, i64)", <<1, 2>>), Arg("(i64, i64)", <<0, 0>>),
     Arg("Value", Nil), Arg("String", "s"),
     Arg("Vec<Value>", <<Nil, Integer(1)>>), Arg("Vec<String>", <<"a", "b">>),
     Arg("Buffer", Handle(Ext(0, 1))), Arg("Tabpage", Handle(Ext(2, 1))),
     Arg("Window", Handle(Ext(1, 1000))),
     Arg("Vec<(Value, Value)>", <<<<String("k"), Integer(1)>>>>)}

\* The argument lists of up to n arguments.
ArgLists(n) == UNION {[1..k -> Args] : k \in 0..n}

\* value_vec!(args) as the generated methods call it.
ConvertArgs ==
    /\ task.op = "value_vec"
    /\ answer = NoAnswer
    /\ answer' = [tag |-> "Params", params |-> value_vec(task.args)]
    /\ UNCHANGED <<mainVars, task>>

\* rpc::encode of the Request that carries the params.
EncodeParams ==
    /\ task.op = "value_vec"
    /\ answer.tag = "Params"
    /\ answer' = [tag |-> "Written",
                  bytes |-> write_value(encode(RpcRequest(0, "m", answer.params)))]
    /\ UNCHANGED <<mainVars, task>>

\* rpc::decode at the other end of the loopback.
DecodeParams ==
    /\ task.op = "value_vec"
    /\ answer.tag = "Written"
    /\ answer' = decode_reader(answer.bytes)
    /\ UNCHANGED <<mainVars, task>>

ConvertNext == ConvertArgs \/ EncodeParams \/ DecodeParams

ConvertSpec ==
    /\ HarnessInit({[op |-> "value_vec", args |-> as] : as \in ArgLists(MaxArgs)})
    /\ [][ConvertNext]_vars

\* --------------------------------------------------- genapi: the generator
\* Function names are sequences of characters.
str_nvim == <<"n", "v", "i", "m", "_">>
str_buf == <<"n", "v", "i", "m", "_", "b", "u", "f", "_">>
str_tabpage == <<"n", "v", "i", "m", "_", "t", "a", "b", "p", "a", "g", "e", "_">>
str_win == <<"n", "v", "i", "m", "_", "w", "i", "n", "_">>

\* str::starts_with
starts_with(str, prefix) ==
    Len(prefix) <= Len(str) /\ SubSeq(str, 1, Len(prefix)) = prefix

\* str::strip_prefix: Some(the rest) when str starts with prefix, else None.
str_strip_prefix(str, prefix) ==
    IF starts_with(str, prefix)
    THEN [some |-> TRUE, v |-> SubSeq(str, Len(prefix) + 1, Len(str))]
    ELSE [some |-> FALSE]

\* Option<u64>::None of deprecated_since
None == 0 - 1

Parameter(name, type) == [name |-> name, parameter_type |-> type]

Function(name, deprecated_since, parameters) ==
    [name |-> name, deprecated_since |-> deprecated_since, parameters |-> parameters]

\* The functions of the manifests given to the generator.
FunctionNames ==
    {str_buf \o <<"x">>, str_tabpage \o <<"x">>, str_win \o <<"x">>,
     str_nvim \o <<"x">>, str_nvim \o <<"b", "u", "f">>}

ParameterLists ==
    {<<>>,
     <<Parameter("buffer", "BUFFER")>>,
     <<Parameter("window", "WINDOW"), Parameter("buffer", "BUFFER")>>,
     <<Parameter("buf", "BUFFER"), Parameter("buffer", "BUFFER")>>,
     <<Parameter("buffer", "BUFFER"), Parameter("fn", "VALUE"), Parameter("type", "STRING")>>}

Functions ==
    {Function(n, d, ps) : n \in FunctionNames, d \in {None, 1}, ps \in ParameterLists}

\* The manifests of up to n functions.
Manifests(n) == UNION {[1..k -> Functions] : k \in 0..n}

\* A grouping that has no Tabpage group.
GroupNoTabpage(f) ==
    IF starts_with(f.name, str_buf) THEN "buffer"
    ELSE IF starts_with(f.name, str_win) THEN "window"
    ELSE "nvim"

\* generate_api lines 324-337: the group a function is pushed to.
Group(f) ==
    IF starts_with(f.name, str_buf) THEN "buffer"
    ELSE IF starts_with(f.name, str_tabpage) THEN "tabpage"
    ELSE IF starts_with(f.name, str_win) THEN "window"
    ELSE "nvim"

\* generate_api lines 317-340: the loop over the manifest, pushing every
\* function that is not deprecated to the vector of its group.
RECURSIVE Partition(_, _)
Partition(functions, groups) ==
    IF functions = <<>> THEN groups
    ELSE LET f == Head(functions) IN
         Partition(Tail(functions),
                   IF f.deprecated_since = None
                   THEN [groups EXCEPT ![Group(f)] = Append(@, f)]
                   ELSE groups)

GroupNames == {"buffer", "nvim", "tabpage", "window"}

\* generate_api lines 344-379: the prefix and the param save_functions is
\* given for each group.
GroupPrefix(g) ==
    IF g = "buffer" THEN str_buf
    ELSE IF g = "tabpage" THEN str_tabpage
    ELSE IF g = "window" THEN str_win
    ELSE str_nvim

GroupParam(g) == IF g = "nvim" THEN "" ELSE g

\* strip_prefix line 236: `p.into_iter().filter(|x| x.name != *param).collect()`
RECURSIVE filter_name_ne(_, _)
filter_name_ne(ps, param) ==
    IF ps = <<>> THEN <<>>
    ELSE IF Head(ps).name # param
    THEN <<Head(ps)>> \o filter_name_ne(Tail(ps), param)
    ELSE filter_name_ne(Tail(ps), param)

\* strip_prefix
strip_prefix(f, prefix, param) ==
    LET stripped == str_strip_prefix(f.name, prefix) IN
    [f EXCEPT !.name = IF stripped.some THEN stripped.v ELSE f.name,
              !.parameters = filter_name_ne(f.parameters, param)]

\* change_keywords
change_keywords(f) ==
    [f EXCEPT !.parameters =
        [i \in 1..Len(f.parameters) |->
            IF f.parameters[i].name = "fn"
            THEN [f.parameters[i] EXCEPT !.name = "r#fn"]
            ELSE IF f.parameters[i].name = "type"
            THEN [f.parameters[i] EXCEPT !.name = "r#type"]
            ELSE f.parameters[i]]]

\* generate_api lines 317-340
GenPartition ==
    /\ task.op = "generate"
    /\ answer = NoAnswer
    /\ answer' = [tag |-> "Groups",
                  groups |-> Partition(task.functions, [g \in GroupNames |-> <<>>])]
    /\ UNCHANGED <<mainVars, task>>

\* save_functions line 285, for the four groups
GenStrip ==
    /\ task.op = "generate"
    /\ answer.tag = "Groups"
    /\ answer' = [tag |-> "Stripped",
                  groups |-> [g \in GroupNames |->
                      [i \in 1..Len(answer.groups[g]) |->
                          strip_prefix(answer.groups[g][i], GroupPrefix(g), GroupParam(g))]]]
    /\ UNCHANGED <<mainVars, task>>

\* save_functions line 286, for the four groups
GenKeywords ==
    /\ task.op = "generate"
    /\ answer.tag = "Stripped"
    /\ answer' = [tag |-> "Saved",
                  groups |-> [g \in GroupNames |->
                      [i \in 1..Len(answer.groups[g]) |->
                          change_keywords(answer.groups[g][i])]]]
    /\ UNCHANGED <<mainVars, task>>

GenNext == GenPartition \/ GenStrip \/ GenKeywords

GenSpec ==
    /\ HarnessInit({[op |-> "generate", functions |-> fs] : fs \in Manifests(MaxFuncs)})
    /\ [][GenNext]_vars

\* --------------------------------------------------- user-supplied handlers
\* What a user's handle_notification can do on the reader thread.
NotificationOutcomes == {"returned", "panicked"}

\* The frames of a peer that calls into the client.
HandlerFrames ==
    {encode(RpcRequest(8, "bar", <<Integer(1)>>)),
     encode(RpcNotification("redraw", <<Nil>>)),
     encode(RpcResponse(0, Nil, Payload(0)))}

\* The client with user-supplied request and notification handlers.
NextHandler ==
    \/ \E c \in Callers : CallEnter(c)
    \/ \E c \in Callers : CallRegister(c)
    \/ \E c \in Callers : CallWrite(c)
    \/ \E c \in Callers : CallPoll(c)
    \/ \E c \in Callers, j \in 0..delay : CallSleep(c, j)
    \/ StartEventLoop
    \/ \E h \in RequestHandlers : ReaderDecodeWith(h)
    \/ ReaderEof
    \/ ReaderSend
    \/ ReaderRespond
    \/ \E o \in NotificationOutcomes : ReaderNotify(o)
    \/ \E f \in HandlerFrames : PeerSend(f)
    \/ PeerClose
    \/ TransportFail

HandlerSpec == Init /\ [][NextHandler]_vars

\* The frames of a peer that only sends Requests, one with an empty method.
ReplyFrames ==
    {encode(RpcRequest(8, "bar", <<Integer(1)>>)),
     encode(RpcRequest(9, "", <<>>))}

\* The reader thread of a client on which no call is made, answering the
\* Requests of its peer from every kind of handler.
NextReply ==
    \/ StartEventLoop
    \/ \E h \in ReplyHandlers : ReaderDecodeWith(h)
    \/ ReaderEof
    \/ ReaderRespond
    \/ \E f \in ReplyFrames : PeerSend(f)
    \/ PeerClose
    \/ TransportFail

ReplySpec == Init /\ [][NextReply]_vars

\* ----------------------------------------------------------------- claims
InWait(c) == pc[c] \in {"poll", "sleep"}

\* The values call can return from its wait loop.
Timeout == Err(TimeoutError("Timeout when waiting for RPC response"))
Disconnected == Err(MpscError("Channel disconnected while waiting for RPC response"))

\* The caller c leaves call in this step (it returns or it panics).
Leaves(c) == InCall(c) /\ pc'[c] \in {"idle", "dead"}

\* The reader takes the next frame off the stream in this step.
ReaderTakes == CanRead /\ inbound' = Tail(inbound)

\* Responses are routed by id: a value the reader puts on a call's channel,
\* and a value a call returns as Ok, is the result of the Response frame that
\* carries the id of that call's own request (the peer's Response for id i
\* carries Payload(i), different for every id).
RoutedById ==
    /\ \A i \in MsgIds :
          (chan[i] # <<>> /\ Head(chan[i]).ok) => Head(chan[i]).val = Payload(i)
    /\ ret.res.ok => ret.res.val = Payload(ret.id)

\* Two calls are never waiting at once: a caller keeps the session guard and
\* the writer guard until its call returns.
OneCallAtATime ==
    \A c, d \in Callers : (InWait(c) /\ InWait(d)) => c = d

\* C1: whatever the order in which the peer answers, each caller receives the
\* Response that carries its own id.  When the peer answers a later request
\* first (that call has returned its result) and then an earlier one whose
\* entry is still in the table, the caller of the earlier request is there to
\* receive it.
C1_EachCallerReceivesOwnResponse ==
    [][(/\ ReaderTakes
        /\ decode(Head(inbound)).tag = "Ok"
        /\ decode(Head(inbound)).msg.type = "RpcResponse"
        /\ decode(Head(inbound)).msg.error = Nil
        /\ decode(Head(inbound)).msg.msgid \in handles
        /\ decode(Head(inbound)).msg.msgid < ret.id
        /\ ret.res = Ok(Payload(ret.id)))
       => ReceiverAlive(decode(Head(inbound)).msg.msgid)]_vars

\* C1 witness: the second call has returned its own result, the entry of the
\* first call is still in the table, nobody waits for it, and the Response to
\* the first call is the next frame on the stream (the peer answers 1, then 0).
C1_Witness ==
    /\ ret.id = 1
    /\ ret.res = Ok(Payload(1))
    /\ 0 \in handles
    /\ ~ReceiverAlive(0)
    /\ rd = "decode"
    /\ inbound = <<encode(RpcResponse(0, Nil, Payload(0)))>>

\* The error the reader is to send for a Response whose error field is not nil.
ProtocolError(val) == [kind |-> "ProtocolError", val |-> val]

\* C2: when the reader sends the outcome of a Response whose error field is
\* not nil, what it sends to the caller is Err(ProtocolError(error)) with the
\* peer's error value in it, and what a call returns from its channel is not
\* of the kind of the channel failure.
C2_ErrorResponseIsProtocolError ==
    [][/\ (rd = "send" /\ rd' = "decode" /\ msg.error # Nil)
            => chan'[sender] = <<Err(ProtocolError(msg.error))>>
       /\ \A c \in Callers :
            (pc[c] = "poll" /\ Leaves(c) /\ chan[msgid[c]] # <<>>
                /\ ~Head(chan[msgid[c]]).ok)
                => ret'.res.err.kind # Disconnected.err.kind]_vars

\* C3 as stated: once the reader has put Ok(result) on the channel of a call
\* that is still waiting (its deadline has not passed: the clock of a waiting
\* call is below dur), the call returns that Ok(result).
C3_ResponseBeforeDeadlineReturned ==
    [][\A c \in Callers :
          (InWait(c) /\ Leaves(c) /\ chan[msgid[c]] # <<>> /\ Head(chan[msgid[c]]).ok)
              => (ret'.id = msgid[c] /\ ret'.res = Head(chan[msgid[c]]))]_vars

\* C3 amended: a Response with a nil error that the reader dispatches to a
\* waiting call goes on the call's channel as Ok(result) with the frame's
\* result, and a call that polls its channel with that value on it returns
\* exactly it.
C3_ResponseBeforeLastPollReturned ==
    [][/\ (rd = "send" /\ rd' = "decode" /\ msg.error = Nil)
            => chan'[sender] = <<Ok(msg.result)>>
       /\ \A c \in Callers :
            (pc[c] = "poll" /\ Leaves(c) /\ chan[msgid[c]] # <<>>)
                => ret' = [id |-> msgid[c], res |-> Head(chan[msgid[c]]),
                           waited |-> elapsed[c]]]_vars

\* C3 witness: a call has returned Ok with the result of its Response.
C3_Witness ==
    /\ ret.id = 0
    /\ ret.res = Ok(Payload(0))
    /\ ret.waited < dur

\* C4: against a peer that never sends a Response, a call whose request was
\* written leaves its wait loop only by returning TimeoutError, with the clock
\* at the deadline or past it by less than one polling step (a sleep lasts less than two delays);
\* and it does leave: a waiting caller always has a step to take, every sleep
\* advances its clock, and the clock of a waiting caller stays below dur.
C4_TimeoutAtDeadline ==
    /\ [](/\ ret.res = Timeout => (dur <= ret.waited /\ ret.waited < dur + 2 * delay)
          /\ \A c \in Callers : InWait(c) => elapsed[c] < dur)
    /\ [][\A c \in Callers :
            /\ (InWait(c) /\ Leaves(c) /\ chan[msgid[c]] = <<>>) => ret'.res = Timeout
            /\ (pc[c] = "sleep" /\ pc'[c] = "poll") => elapsed'[c] > elapsed[c]]_vars
    /\ \A c \in Callers : InWait(c) ~> ~InWait(c)

\* C4 witness: a call has returned TimeoutError, past the deadline by an
\* oversleep, while the reader thread was running.
C4_Witness ==
    /\ ret.res = Timeout
    /\ ret.waited = dur + delay
    /\ rd = "decode"

\* C5: a Response to a request whose caller has already returned TimeoutError
\* (its entry is still in the table, its receiver is gone) is discarded: the
\* reader does not panic on it and goes on to decode the next frame.
C5_LateResponseDiscarded ==
    [][(rd = "send" /\ ret.id = sender /\ ret.res = Timeout)
          => (rd' = "decode" /\ chan' = chan)]_vars

\* C6: a Response whose id has no entry in the table is dropped: the table is
\* unchanged, nothing is put on a channel and the reader goes on to decode the
\* next frame.
C6_UnknownIdDropped ==
    [][(/\ ReaderTakes
        /\ decode(Head(inbound)).tag = "Ok"
        /\ decode(Head(inbound)).msg.type = "RpcResponse"
        /\ decode(Head(inbound)).msg.msgid \notin handles)
       => (rd' = "decode" /\ handles' = handles /\ chan' = chan
              /\ handlesPoisoned' = handlesPoisoned)]_vars

\* C7: a call that began after the reader thread had ended (it returned on a
\* decode error, or it panicked) returns the channel-disconnected error when it
\* leaves its wait loop.
C7_CallAfterReaderExitDisconnected ==
    [][\A c \in Callers :
          (InWait(c) /\ Leaves(c) /\ gone[c])
              => (ret'.id = msgid[c] /\ ret'.res = Disconnected)]_vars

\* C8: the counter starts at 0; every call takes the counter as its id and
\* advances it by one, whether the call then panics, fails to write, times out
\* or returns a result; and nothing else changes the counter.  So the ids are
\* 0, 1, 2, ... in the order of the calls and no id is issued twice.
C8_IdsIncreaseByOne ==
    /\ msg_counter = 0
    /\ [][/\ \A c \in Callers :
               (pc[c] = "entered" /\ pc'[c] # "entered")
                   => /\ msg_counter' = msg_counter + 1
                      /\ pc'[c] = "registered" => msgid'[c] = msg_counter
          /\ (\A c \in Callers : pc[c] = "entered" => pc'[c] = "entered")
                   => msg_counter' = msg_counter
          /\ \A c, d \in Callers :
               (c # d /\ pc'[c] \in {"registered", "poll", "sleep"}
                      /\ pc'[d] \in {"registered", "poll", "sleep"})
                   => msgid'[c] # msgid'[d]
          /\ (ret' # ret /\ ret.id >= 0) => ret'.id > ret.id]_vars

\* C8 witness: the first call has failed (timed out or could not write) and
\* the next call has taken id 1.
C8_Witness ==
    /\ ret.id = 0
    /\ ret.res \in {Timeout, Err(ConnectionError("write failed"))}
    /\ \E c \in Callers : pc[c] = "registered" /\ msgid[c] = 1
    /\ msg_counter = 2

\* C9: no lock is held across the wait of call, so that a second caller can
\* write its request while the first one waits.
C9_NoLockHeldAcrossWait ==
    \A c \in Callers : InWait(c) => (writerLock # c /\ sessionLock # c)

\* C10: with the default handler, the reader answers an inbound Request
\* {id, method, params} by writing one Response {id, error: the method name as
\* a string, result: nil}: taking a Request off the stream puts the reader in
\* its request branch, it leaves the branch (while the writer half works) only
\* by appending that one frame to the wire, and no Response is written
\* otherwise.
C10_DefaultHandlerResponse ==
    [][/\ (ReaderTakes /\ decode(Head(inbound)).tag = "Ok"
              /\ decode(Head(inbound)).msg.type = "RpcRequest")
            => (rd' = "respond" /\ msg' = decode(Head(inbound)).msg)
       /\ (rd = "respond" /\ rd' # "respond" /\ writable)
            => /\ rd' = "decode"
               /\ wire' = Append(wire, encode(RpcResponse(msg.msgid, String(msg.method), Nil)))
       /\ (wire' # wire /\ rd # "respond")
            => /\ Len(wire') = Len(wire) + 1
               /\ decode(wire'[Len(wire')]).msg.type = "RpcRequest"]_vars

\* C10 witness: the Response to the inbound Request {7, "foo", []} is on the
\* wire after the request of a call.
C10_Witness ==
    /\ Len(wire) = 2
    /\ decode(wire[1]).msg.type = "RpcRequest"
    /\ wire[2] = encode(RpcResponse(7, String("foo"), Nil))

\* C11: the reader answers every inbound Request {id, method, params} with one
\* Response of the same id made from what the request handler returned for
\* (id, method, params): Ok(v) gives {error: nil, result: v}, Err(e) gives
\* {error: the string of e, result: nil}.  The reader leaves its request branch
\* (while the writer half works) only by appending that one frame to the wire
\* and going back to decode; no Response is written otherwise; and the step
\* changes nothing on the callers' side.
C11_RequestAnsweredFromHandlerResult ==
    [][/\ (ReaderTakes /\ decode(Head(inbound)).tag = "Ok"
              /\ decode(Head(inbound)).msg.type = "RpcRequest")
            => LET m == decode(Head(inbound)).msg IN
               /\ rd' = "respond"
               /\ msg' = m
               /\ \E h \in RequestHandlers :
                     LET res == user_handle_request(h, m.msgid, m.method, m.params) IN
                     response' = [type |-> "RpcResponse", msgid |-> m.msgid,
                                  error |-> IF res.ok THEN Nil ELSE String(res.err.msg),
                                  result |-> IF res.ok THEN res.val ELSE Nil]
       /\ (rd = "respond" /\ rd' # "respond")
            => /\ UNCHANGED <<chan, ret, pc, handles, msg_counter>>
               /\ writable => /\ rd' = "decode"
                              /\ wire' = Append(wire, encode(response))
       /\ (wire' # wire /\ rd # "respond")
            => /\ Len(wire') = Len(wire) + 1
               /\ decode(wire'[Len(wire')]).msg.type = "RpcRequest"]_vars

\* C11 witness: the peer's Request {8, "bar", [1]} was answered twice, once from
\* a handler that returned Ok and once from one that returned Err, and the
\* reader is decoding again.
C11_Witness ==
    /\ rd = "decode"
    /\ wire = <<encode(RpcResponse(8, String("bar"), Nil)),
                encode(RpcResponse(8, Nil,
                    Array(<<Integer(8), String("bar"), Array(<<Integer(1)>>)>>)))>>

\* C12: an inbound Notification [2, method, params] is handed to the
\* notification handler with the frame's own method and params, and neither
\* taking it off the stream nor handling it writes a frame or changes the
\* table, the counter, a channel or a caller.
C12_NotificationDeliveredNoEffect ==
    [][/\ (ReaderTakes /\ Head(inbound).k = "Array" /\ Len(Head(inbound).v) = 3
              /\ Head(inbound).v[1] = Integer(2)
              /\ Head(inbound).v[2].k = "String" /\ Head(inbound).v[3].k = "Array")
            => /\ rd' = "notify"
               /\ msg' = [type |-> "RpcNotification",
                          method |-> Head(inbound).v[2].v,
                          params |-> Head(inbound).v[3].v]
               /\ UNCHANGED <<wire, handles, msg_counter, chan, pc, msgid, elapsed, ret>>
       /\ (rd = "notify" /\ rd' # "notify")
            => UNCHANGED <<wire, handles, msg_counter, chan, pc, msgid, elapsed, ret>>
       /\ (rd' = "notify" /\ rd # "notify") => ReaderTakes]_vars

\* C12 witness: the handler is about to run with the Notification
\* {"redraw", [nil]} while a call is waiting for its response.
C12_Witness ==
    /\ rd = "notify"
    /\ msg = RpcNotification("redraw", <<Nil>>)
    /\ \E c \in Callers : InWait(c) /\ msgid[c] \in handles

\* C13: a notification handler that panics does not stop the reader: after the
\* handler has run, the reader decodes the next frame.
C13_HandlerPanicDoesNotStopReader ==
    [][(rd = "notify" /\ rd' # "notify") => rd' = "decode"]_vars

\* C13 witness: the reader thread has ended in the notification branch while a
\* call waits for its response.
C13_Witness ==
    /\ rd = "panicked"
    /\ sent = 1
    /\ ~closed
    /\ wire = <<encode(RpcRequest(0, "nvim_call", <<>>))>>
    /\ \E c \in Callers : InWait(c) /\ msgid[c] \in handles

\* C14: for every frame F, decoding the stream that encoding F wrote returns
\* Ok(F): the same variant with every field equal.
C14_RoundTrip ==
    (task.op = "encode" /\ answer.tag \notin {"None", "Written"})
        => answer = Decoded(task.frame)

\* C14 witness: a Response with an error string and an array result came back
\* from the stream it was written to.
C14_Witness ==
    /\ task.op = "encode"
    /\ task.frame = RpcResponse(1, String("bad"), Array(<<Nil, Integer(1)>>))
    /\ answer = Decoded(task.frame)

\* A well-formed frame: an array [0, id, method, params] or [1, id, error,
\* result] of length 4, or [2, method, params] of length 3, with a non-negative
\* integer id, a string method and array params.
WellFormed(val) ==
    /\ val.k = "Array"
    /\ Len(val.v) >= 1
    /\ \/ /\ val.v[1] = Integer(0)
          /\ Len(val.v) = 4
          /\ IsU64(val.v[2]) /\ val.v[3].k = "String" /\ val.v[4].k = "Array"
       \/ /\ val.v[1] = Integer(1)
          /\ Len(val.v) = 4
          /\ IsU64(val.v[2])
       \/ /\ val.v[1] = Integer(2)
          /\ Len(val.v) = 3
          /\ val.v[2].k = "String" /\ val.v[3].k = "Array"

\* C15: decode returns a decode error, and neither panics nor returns a frame,
\* for every stream that does not hold a well-formed frame: a stream that ends
\* before its value does, and a value that is not a well-formed frame.
C15_MalformedIsDecodeError ==
    (/\ task.op = "decode"
     /\ answer # NoAnswer
     /\ ~(read_value(task.bytes).ok /\ WellFormed(read_value(task.bytes).val)))
        => (answer.tag = "Err" /\ answer.err.kind = "DecodingError")

\* C15 witness: decode has returned a Response for the array [1, 1] of two
\* elements.
C15_Witness ==
    /\ task.op = "decode"
    /\ task.bytes = write_value(Array(<<Integer(1), Integer(1)>>))
    /\ answer = Decoded(RpcResponse(1, Nil, Nil))

\* C16: no failure of a call and nothing the peer sends makes a thread of the
\* library panic: no caller thread and not the reader thread.
C16_NoThreadPanics ==
    /\ \A c \in Callers : pc[c] # "dead"
    /\ rd # "panicked"

\* C16 witness: a call through Nvim::call timed out and the caller thread
\* panicked with the session guard, which is now poisoned.
C16_Witness ==
    /\ api = "Nvim"
    /\ ret.res = Timeout
    /\ sessionPoisoned
    /\ rd = "decode"
    /\ \E c \in Callers : pc[c] = "dead"

\* C17: while start_event_loop has not been called, nothing reads the stream
\* (a frame the peer wrote stays on it, also across the start of the event
\* loop), no channel receives a value and no call has returned Ok; a call that
\* leaves its wait loop returns TimeoutError with the clock at or past the
\* deadline.
C17_NoResultBeforeEventLoop ==
    /\ [](rd = "unstarted" => (~ret.res.ok /\ \A i \in MsgIds : chan[i] = <<>>))
    /\ [][/\ \A c \in Callers :
               (rd = "unstarted" /\ InWait(c) /\ Leaves(c))
                   => (ret'.id = msgid[c] /\ ret'.res = Timeout /\ ret'.waited >= dur)
          /\ (rd = "unstarted" /\ inbound # <<>>) => inbound' = inbound]_vars

\* C17 witness: call 0 has returned TimeoutError, the event loop is not
\* started and the Response to call 0 is on the stream, unread.
C17_Witness ==
    /\ rd = "unstarted"
    /\ ret.id = 0
    /\ ret.res = Timeout
    /\ inbound = <<encode(RpcResponse(0, Nil, Payload(0)))>>

\* The session has been dropped.
Dropped == \A c \in Callers : pc[c] = "dropped"

\* C18: once the Session is dropped the transport is closed and the reader
\* thread ends on its next read: it dispatches no frame and writes none.
C18_DropEndsReader ==
    [][Dropped => /\ (rd = "decode" /\ rd' # "decode") => rd' \in {"exited", "panicked"}
                  /\ wire' = wire]_vars

\* C18 witness: after the drop the reader thread has taken a Request off the
\* stream and is about to write its Response.
C18_Witness ==
    /\ Dropped
    /\ rd = "respond"
    /\ msg = RpcRequest(7, "foo", <<>>)
    /\ wire = <<>>

\* The functions of the manifest that have no deprecated_since, in manifest
\* order.
NotDeprecated == SelectSeq(task.functions, LAMBDA f : f.deprecated_since = None)

\* C19: the generator drops every function that has deprecated_since and puts
\* each remaining one in one group by the prefix of its name: nvim_buf_ to
\* Buffer, nvim_tabpage_ to Tabpage, nvim_win_ to Window, everything else to
\* Nvim; each group holds its functions in manifest order, and together the
\* groups hold every function that is not deprecated once.
C19_PartitionByPrefix ==
    answer.tag = "Groups" =>
        /\ answer.groups["buffer"] =
              SelectSeq(NotDeprecated, LAMBDA f : starts_with(f.name, str_buf))
        /\ answer.groups["tabpage"] =
              SelectSeq(NotDeprecated, LAMBDA f : starts_with(f.name, str_tabpage))
        /\ answer.groups["window"] =
              SelectSeq(NotDeprecated, LAMBDA f : starts_with(f.name, str_win))
        /\ answer.groups["nvim"] =
              SelectSeq(NotDeprecated,
                        LAMBDA f : /\ ~starts_with(f.name, str_buf)
                                   /\ ~starts_with(f.name, str_tabpage)
                                   /\ ~starts_with(f.name, str_win))
        /\ Len(answer.groups["buffer"]) + Len(answer.groups["tabpage"])
              + Len(answer.groups["window"]) + Len(answer.groups["nvim"])
              = Len(NotDeprecated)

\* C19 witness: of a Tabpage function and a deprecated Buffer function the
\* first went to the Tabpage group and the second to no group.
C19_Witness ==
    /\ task.op = "generate"
    /\ task.functions = <<Function(str_tabpage \o <<"x">>, None, <<>>),
                          Function(str_buf \o <<"x">>, 1, <<>>)>>
    /\ answer.tag = "Groups"
    /\ answer.groups["tabpage"] = <<Function(str_tabpage \o <<"x">>, None, <<>>)>>
    /\ answer.groups["buffer"] = <<>>

\* C20: in the Buffer, Tabpage and Window groups the generator takes the
\* group's prefix off the name and removes the first parameter, whatever its
\* name, and no other; in the Nvim group it removes no parameter.
C20_LeadingHandleRemoved ==
    answer.tag = "Stripped" =>
        LET before == Partition(task.functions, [g \in GroupNames |-> <<>>]) IN
        /\ \A g \in {"buffer", "tabpage", "window"} :
              \A i \in 1..Len(before[g]) :
                 /\ GroupPrefix(g) \o answer.groups[g][i].name = before[g][i].name
                 /\ answer.groups[g][i].parameters =
                       IF before[g][i].parameters = <<>> THEN <<>>
                       ELSE Tail(before[g][i].parameters)
        /\ \A i \in 1..Len(before["nvim"]) :
              answer.groups["nvim"][i].parameters = before["nvim"][i].parameters

\* C20 witness: of nvim_buf_x(buf: Buffer, buffer: Buffer) the generator kept
\* the leading parameter and removed the later one.
C20_Witness ==
    /\ task.op = "generate"
    /\ task.functions = <<Function(str_buf \o <<"x">>, None,
                             <<Parameter("buf", "BUFFER"), Parameter("buffer", "BUFFER")>>)>>
    /\ answer.tag = "Stripped"
    /\ answer.groups["buffer"][1].name = <<"x">>
    /\ answer.groups["buffer"][1].parameters = <<Parameter("buf", "BUFFER")>>

\* C21: change_keywords renames a parameter named fn to fn_ and a parameter
\* named type to type_, and leaves every other name, every parameter type, the
\* order of the parameters and the rest of the function unchanged.
C21_KeywordsRenamed ==
    [][(answer.tag = "Stripped" /\ answer'.tag = "Saved") =>
          \A g \in GroupNames :
             /\ Len(answer'.groups[g]) = Len(answer.groups[g])
             /\ \A i \in 1..Len(answer.groups[g]) :
                   LET b == answer.groups[g][i]
                       a == answer'.groups[g][i] IN
                   /\ a.name = b.name
                   /\ a.deprecated_since = b.deprecated_since
                   /\ Len(a.parameters) = Len(b.parameters)
                   /\ \A j \in 1..Len(b.parameters) :
                         /\ a.parameters[j].parameter_type = b.parameters[j].parameter_type
                         /\ a.parameters[j].name =
                               IF b.parameters[j].name = "fn" THEN "fn_"
                               ELSE IF b.parameters[j].name = "type" THEN "type_"
                               ELSE b.parameters[j].name]_vars

\* C21 witness: nvim_x(buffer, fn, type) was saved with its parameters in
\* order, the last two under the names r#fn and r#type.
C21_Witness ==
    /\ task.op = "generate"
    /\ answer.tag = "Saved"
    /\ Len(answer.groups["nvim"]) = 1
    /\ answer.groups["nvim"][1].parameters =
          <<Parameter("buffer", "BUFFER"), Parameter("r#fn", "VALUE"),
            Parameter("r#type", "STRING")>>

\* C22: converting an argument of any supported type to a Value keeps its
\* content (an integer, float, bool or string its value, a Vec its elements, a
\* Buffer, Tabpage or Window its stored payload, a tuple its components, a
\* list of pairs its pairs), and the params value_vec builds come back equal
\* from decode of what encode wrote.
C22_ConvertPreservesContent ==
    LET Content(a) ==
            IF a.ty \in {"u64", "i64"} THEN [k |-> "Integer", v |-> a.content]
            ELSE IF a.ty = "f64" THEN [k |-> "F64", v |-> a.content]
            ELSE IF a.ty = "bool" THEN [k |-> "Boolean", v |-> a.content]
            ELSE IF a.ty = "(i64, i64)"
            THEN [k |-> "Array", v |-> <<[k |-> "Integer", v |-> a.content[1]],
                                         [k |-> "Integer", v |-> a.content[2]]>>]
            ELSE IF a.ty = "Value" THEN a.content
            ELSE IF a.ty = "String" THEN [k |-> "String", v |-> a.content]
            ELSE IF a.ty = "Vec<Value>" THEN [k |-> "Array", v |-> a.content]
            ELSE IF a.ty = "Vec<String>"
            THEN [k |-> "Array",
                  v |-> [i \in 1..Len(a.content) |-> [k |-> "String", v |-> a.content[i]]]]
            ELSE IF a.ty \in {"Buffer", "Tabpage", "Window"} THEN a.content.data
            ELSE [k |-> "Map", v |-> a.content]
        Contents == [i \in 1..Len(task.args) |-> Content(task.args[i])]
    IN task.op = "value_vec" =>
          /\ answer.tag = "Params" => answer.params = Contents
          /\ answer.tag \notin {"None", "Params", "Written"}
                => (answer.tag = "Ok" /\ answer.msg.params = Contents)

\* C22 witness: a Window and the tuple (1, 2) went through value_vec, encode
\* and decode; the Window's payload came back, the tuple came back as 0.
C22_Witness ==
    /\ task.op = "value_vec"
    /\ task.args = <<Arg("Window", Handle(Ext(1, 1000))), Arg("(i64, i64)", <<1, 2>>)>>
    /\ answer = Decoded(RpcRequest(0, "m", <<Ext(1, 1000), Integer(0)>>))

\* C23: call has released the writer guard when it starts to wait: no caller
\* that is polling its channel or sleeping between two polls holds the writer
\* lock.
C23_WriterLockReleasedBeforeWait ==
    \A c \in Callers : InWait(c) => writerLock # c

\* C23 witness: a caller sleeps in its wait loop with the writer guard while
\* the reader has a Response to an inbound Request to write.
C23_Witness ==
    /\ rd = "respond"
    /\ \E c \in Callers : pc[c] = "sleep" /\ writerLock = c /\ elapsed[c] > 0

\* C24: an inbound Request that arrives while a call waits is answered without
\* waiting for the call: the reader, with a Response to write, never finds the
\* writer lock held by a caller; and when the Response to the waiting call
\* follows the Request on the stream, the call does not leave its wait loop
\* before the reader has read it, and so returns its result.
C24_InboundRequestAnsweredPromptly ==
    /\ [](rd = "respond" => writerLock \notin Callers)
    /\ [][\A c \in Callers :
            (/\ InWait(c) /\ Leaves(c)
             /\ rd = "respond"
             /\ inbound = <<encode(RpcResponse(msgid[c], Nil, Payload(msgid[c])))>>)
                => ret'.res = Ok(Payload(msgid[c]))]_vars

\* C24 witness: call 0 has returned TimeoutError while the reader still holds
\* the unwritten Response to the Request {7, "foo", []} and the Response to
\* call 0 is behind it on the stream.
C24_Witness ==
    /\ ret.id = 0
    /\ ret.res = Timeout
    /\ rd = "respond"
    /\ response = RpcResponse(7, String("foo"), Nil)
    /\ inbound = <<encode(RpcResponse(0, Nil, Payload(0)))>>
    /\ wire = <<encode(RpcRequest(0, "nvim_call", <<>>))>>

\* C25: frames never interleave on the wire.  A thread that is writing a frame
\* (it is inside rpc::encode: write_value or the flush) holds the writer lock,
\* so at most one thread is writing; the bytes the peer has received are the
\* frames flushed so far, whole and in the order of their flushes; and the
\* bytes in the buffer with the bytes the writing thread has still to write
\* make up a sequence of whole frames to follow them.
C25_FramesNeverInterleave ==
    LET Writing(t) == IF t = ReaderThread THEN rd = "encode" ELSE pc[t] = "encode"
        RECURSIVE Concat(_), Whole(_)
        Concat(frames) ==
            IF frames = <<>> THEN <<>>
            ELSE write_value(Head(frames)) \o Concat(Tail(frames))
        Whole(bytes) ==
            \/ bytes = <<>>
            \/ LET r == read_value(bytes) IN
               r.ok /\ decode(r.val).tag = "Ok" /\ Whole(r.rest)
        Rest == IF writerLock \in Threads THEN unwritten[writerLock] ELSE <<>>
    IN /\ \A t \in Threads : Writing(t) => writerLock = t
       /\ stream = Concat(wire)
       /\ \A i \in 1..Len(wire) : decode(wire[i]).tag = "Ok"
       /\ Whole(bufwriter \o Rest)

\* C25 witness: the peer has received the Request of call 0, whole; the reader
\* holds the writer lock with a part of its Response in the buffer and the
\* rest to write, while the caller of the next call waits for the lock.
C25_Witness ==
    /\ stream = write_value(encode(RpcRequest(0, "nvim_call", <<>>)))
    /\ rd = "encode"
    /\ writerLock = ReaderThread
    /\ Len(bufwriter) = 2
    /\ Len(unwritten[ReaderThread]) = 3
    /\ \E c \in Callers : pc[c] = "registered" /\ msgid[c] = 1

\* C26: the entry of a call is in the table before the first byte of its
\* Request is written: the step that takes the id inserts the entry and writes
\* nothing, and bytes of the Request are written only after it.  From then on,
\* while the caller is in call, the entry stays in the table until the reader
\* takes it out for the Response to that call; so when the reader takes the
\* Response to a call whose Request was written and whose caller is still
\* waiting for it, the entry is in the table and the reader gets its sender.
C26_EntryInsertedBeforeRequestWritten ==
    /\ [](\A c \in Callers :
            pc[c] \in {"registered", "encode", "poll", "sleep"}
                => \/ msgid[c] \in handles
                   \/ sender = msgid[c]
                   \/ chan[msgid[c]] # <<>>)
    /\ [][/\ \A c \in Callers :
               /\ (pc[c] = "entered" /\ pc'[c] = "registered")
                     => /\ msgid'[c] \in handles'
                        /\ UNCHANGED <<stream, bufwriter, unwritten>>
               /\ unwritten'[c] # unwritten[c] => pc[c] \in {"registered", "encode"}
          /\ (/\ ReaderTakes
              /\ decode(Head(inbound)).tag = "Ok"
              /\ decode(Head(inbound)).msg.type = "RpcResponse"
              /\ \E c \in Callers :
                    /\ InWait(c)
                    /\ msgid[c] = decode(Head(inbound)).msg.msgid
                    /\ chan[msgid[c]] = <<>>)
                => /\ decode(Head(inbound)).msg.msgid \in handles
                   /\ rd' = "send"
                   /\ sender' = decode(Head(inbound)).msg.msgid]_vars

\* C26 witness: the Request of call 0 is with the peer, its caller sleeps in
\* the wait loop, and the reader has taken the sender of call 0 out of the
\* table for the Response.
C26_Witness ==
    /\ stream = write_value(encode(RpcRequest(0, "nvim_call", <<>>)))
    /\ rd = "send"
    /\ sender = 0
    /\ msg = RpcResponse(0, Nil, Payload(0))
    /\ \E c \in Callers : pc[c] = "sleep" /\ msgid[c] = 0

\* C27: an entry leaves the table when the reader delivers the Response or
\* when its caller's timeout fires, whichever is first: the table holds
\* entries of calls in progress only (after a call has returned there is no
\* entry for its id), and no channel ever holds more than one message.
C27_EntryRemovedExactlyOnce ==
    /\ \A i \in handles : ReceiverAlive(i)
    /\ \A i \in MsgIds : Len(chan[i]) <= 1

\* C27 witness: call 0 has returned TimeoutError, no call is in progress, and
\* the entry of call 0 is still in the table.
C27_Witness ==
    /\ ret.id = 0
    /\ ret.res = Timeout
    /\ \A c \in Callers : pc[c] = "idle"
    /\ handles = {0}
    /\ rd = "decode"

\* C28: on the first stream failure (the end of the stream, or a value decode
\* rejects) the reader thread returns, it does not panic; and once it has
\* ended it stays ended: it takes nothing off the stream, removes no entry
\* from the table, and a frame written after that is a caller's Request.
C28_ReaderExitsCleanlyOnStreamFailure ==
    [][/\ (/\ rd = "decode" /\ rd' # "decode"
           /\ \/ inbound = <<>> /\ closed
              \/ inbound # <<>> /\ decode(Head(inbound)).tag # "Ok")
            => rd' = "exited"
       /\ rd \in {"exited", "panicked"}
            => /\ rd' = rd
               /\ inbound' # inbound => inbound = <<>>
               /\ handles \subseteq handles'
               /\ UNCHANGED <<msg, response, sender>>
               /\ wire' # wire => decode(wire'[Len(wire')]).msg.type = "RpcRequest"]_vars

\* C28 witness: the peer closed the stream without sending a frame, no call
\* was made, and the reader thread has panicked.
C28_Witness ==
    /\ closed
    /\ sent = 0
    /\ msg_counter = 0
    /\ rd = "panicked"

\* C29 as stated: in every Response the client has written, exactly one of
\* error and result is non-nil.
C29_ExactlyOneOfErrorAndResult ==
    \A i \in 1..Len(wire) :
        decode(wire[i]).msg.type = "RpcResponse"
            => (decode(wire[i]).msg.error = Nil) # (decode(wire[i]).msg.result = Nil)

\* C29 amended: in every Response the client has written, at most one of
\* error and result is non-nil, and an error that is not nil is a string (the
\* handler's Err); and the Response the reader builds has a nil error with the
\* handler's value as result, nil when that value is nil, exactly when the
\* handler returned Ok, and a string error with a nil result when it returned
\* Err.
C29_AtMostOneOfErrorAndResult ==
    /\ [](\A i \in 1..Len(wire) :
            decode(wire[i]).msg.type = "RpcResponse"
                => /\ decode(wire[i]).msg.error = Nil \/ decode(wire[i]).msg.result = Nil
                   /\ decode(wire[i]).msg.error # Nil
                         => decode(wire[i]).msg.error.k = "String")
    /\ [][(ReaderTakes /\ decode(Head(inbound)).tag = "Ok"
              /\ decode(Head(inbound)).msg.type = "RpcRequest")
            => LET m == decode(Head(inbound)).msg IN
               \E h \in ReplyHandlers :
                  LET res == user_handle_request(h, m.msgid, m.method, m.params) IN
                  /\ res.ok => (response'.error = Nil /\ response'.result = res.val)
                  /\ ~res.ok => (response'.error.k = "String" /\ response'.result = Nil)]_vars

\* C29 witness: the handler returned Ok(nil) for the Request {8, "bar", [1]}
\* and the Response on the wire has a nil error and a nil result.
C29_Witness ==
    /\ rd = "decode"
    /\ wire = <<encode(RpcResponse(8, Nil, Nil))>>

\* C30: a client never has more than one reader thread.  The first
\* start_event_loop takes the reader out of the client and spawns the one
\* thread; a later start_event_loop panics on the empty slot and spawns
\* nothing, and the thread that exists goes on as before.
C30_AtMostOneReaderWorker ==
    /\ [](/\ workers <= 1
          /\ (workers = 0) <=> (rd = "unstarted"))
    /\ [][/\ workers' # workers => (rd = "unstarted" /\ workers' = 1 /\ rd' = "decode")
          /\ \A c \in Callers :
               (rd # "unstarted" /\ pc[c] = "idle" /\ pc'[c] = "dead")
                   => UNCHANGED <<workers, readerVars, inbound, wire, handles>>]_vars

\* C30 witness: on a client used through Session, with its one reader thread
\* decoding and no call made, a thread has called start_event_loop again and
\* has panicked.
C30_Witness ==
    /\ api = "Session"
    /\ workers = 1
    /\ rd = "decode"
    /\ msg_counter = 0
    /\ \E c \in Callers : pc[c] = "dead"

C32_TableAndWriterLockNeverHeldTogether ==
    LET Pos(t) == IF t = ReaderThread THEN rd ELSE pc[t] IN
    \A t \in Threads :
        /\ ~(handlesLock = t /\ writerLock = t)
        /\ handlesLock = t => Pos(t) \in {"insert", "remove"}
        /\ writerLock = t => Pos(t) \in {"encode", "poll", "sleep"}
        /\ Pos(t) \in {"entered", "find"} => writerLock # t
        /\ Pos(t) \in {"registered", "respond"} => handlesLock # t

\* C32 witness: a caller holds the writer's guard in its wait loop and the
\* reader holds the table's guard to take the sender of that call.
C32_Witness ==
    /\ rd = "remove"
    /\ handlesLock = ReaderThread
    /\ msg.msgid = 0
    /\ \E c \in Callers : pc[c] = "sleep" /\ writerLock = c /\ msgid[c] = 0

\* C33: when the write of the Request fails inside call, call returns that
\* error at once (no wait: the clock is at 0, nothing went to the wire and the
\* caller is out of the call), and nothing is rolled back: the counter stays
\* one past the id of the failed call and the table is left as it was, so
\* the entry inserted for that id is still in it (unless the reader had taken
\* it already for a Response the peer sent with that id before the request
\* was written).  An error of the ConnectionError kind is returned only so.
C33_WriteFailureKeepsState ==
    /\ [](ret.res = Err(ConnectionError("write failed")) => ret.waited = 0)
    /\ [][\A c \in Callers :
            /\ (pc[c] = "registered" /\ pc'[c] # "registered"
                    /\ ~writable /\ ~writerPoisoned)
                => /\ ret' = [id |-> msgid[c],
                              res |-> Err(ConnectionError("write failed")),
                              waited |-> 0]
                   /\ pc'[c] \in {"idle", "dead"}
                   /\ pc'[c] = "dead" <=> api = "Nvim"
                   /\ wire' = wire
                   /\ writerLock' = NoThread
                   /\ msg_counter' = msg_counter
                   /\ msg_counter = NextCounter(msgid[c])
                   /\ handles' = handles
            /\ (ret' # ret /\ ret'.res = Err(ConnectionError("write failed")))
                => \E d \in Callers : pc[d] = "registered" /\ ~writable]_vars

\* C33 witness: the first call failed at its write and returned the error
\* without waiting; the counter is at 1 and entry 0 is still in the table.
C33_Witness ==
    /\ api = "Session"
    /\ ret = [id |-> 0, res |-> Err(ConnectionError("write failed")), waited |-> 0]
    /\ msg_counter = 1
    /\ 0 \in handles
    /\ \A c \in Callers : pc[c] = "idle"
    /\ wire = <<>>

====
